---- MODULE Spec2Model ----
(***************************************************************************)
(* Lua 4.0 decompiler: the bytecode Parser (stack lifter), the Scribe and  *)
(* the chunk Decoder, as state machines translated from src/src/lua40.rs,  *)
(* src/src/lua40/parser.rs, src/src/lua40/ast.rs, src/src/lua40/scribe.rs. *)
(*                                                                         *)
(* Ips are zero based as in the source; the nodes buffer is a function on  *)
(* 0..code_len-1; the stack, the span stack and blocks are sequences, so   *)
(* stack offset U is stack[U + 1].  A Rust panic (index out of bounds,     *)
(* todo!(), panic!()) is the outcome "panic".                              *)
(***************************************************************************)
EXTENDS Integers, Sequences, FiniteSets, TLC

VARIABLES
    ops,          \* proto.ops: the decoded instructions; an entry not yet read is Unread
    ip,           \* index of the instruction the parse loop is at
    closed,       \* the end-of-block test of this loop iteration has been made
    stack,        \* Parser.stack: Vec<Ip>
    nodes,        \* Parser.nodes: Box<[Option<Node>]>
    blocks,       \* Parser.blocks: Vec<BlockSpan>
    local_end,    \* Parser.local_end
    local_namer,  \* Parser.local_namer: the Namer's count
    result,       \* "running", or how Parser::parse ended: "ok", "err", "panic"
    error,        \* the Error returned by parse when result = "err"
    root,         \* Syntax.root.nodes when result = "ok"
    scribe,       \* the Scribe after fmt_syntax: [res, out, level], res = "idle" before
    dec           \* the Decoder: a record, see DecIdle

vars == <<ops, ip, closed, stack, nodes, blocks, local_end, local_namer,
          result, error, root, scribe, dec>>

parserVars == <<ops, ip, closed, stack, nodes, blocks, local_end, local_namer,
                result, error, root, scribe>>

(***************************************************************************)
(* Bounds of the exploration.                                              *)
(***************************************************************************)
\* longest prototype whose instructions are drawn freely
MaxCode == 5

(***************************************************************************)
(* ast.rs: nodes, statements, expressions, partials.                       *)
(***************************************************************************)
None == [t |-> "None"]
ExprNode(e) == [t |-> "Expr", e |-> e]
StmtNode(s) == [t |-> "Stmt", s |-> s]
PartialNode(q) == [t |-> "Partial", q |-> q]

LitInt(v) == [k |-> "Literal", lit |-> "Int", value |-> v]
Access(name) == [k |-> "Access", ident |-> name]
BinExpr(op, lhs, rhs) == [k |-> "Binary", op |-> op, lhs |-> lhs, rhs |-> rhs]
CallOf(name, args) == [name |-> name, args |-> args]
ExprCall(call) == [k |-> "Call", call |-> call]

LocalVar(name, rhs) == [k |-> "LocalVar", name |-> name, rhs |-> rhs]
Assign(name, rhs) == [k |-> "Assign", name |-> name, rhs |-> rhs]
StmtCall(call) == [k |-> "Call", call |-> call]
\* else_ is Option<Block>: <<>> is None, <<b>> is Some(b)
IfBlock(head, then, else_) == [k |-> "If", head |-> head, then |-> then, else_ |-> else_]
CondBinary(op, lhs, rhs) == [k |-> "Binary", op |-> op, lhs |-> lhs, rhs |-> rhs]
IfHead(expr) == [k |-> "IfHead", expr |-> expr]

is_local_var(node) == node.t = "Stmt" /\ node.s.k = "LocalVar"

(***************************************************************************)
(* lua40.rs: the Op variants the decoder produces.                         *)
(***************************************************************************)
Unread == [op |-> "?"]
OpEnd == [op |-> "End"]
OpReturn(results) == [op |-> "Return", results |-> results]
OpCall(stack_offset, results) == [op |-> "Call", stack_offset |-> stack_offset, results |-> results]
OpPop(n) == [op |-> "Pop", n |-> n]
OpPushInt(value) == [op |-> "PushInt", value |-> value]
OpGetLocal(stack_offset) == [op |-> "GetLocal", stack_offset |-> stack_offset]
OpGetGlobal(string_id) == [op |-> "GetGlobal", string_id |-> string_id]
OpSetLocal(stack_offset) == [op |-> "SetLocal", stack_offset |-> stack_offset]
OpAdd == [op |-> "Add"]
OpJumpLe(dest) == [op |-> "JumpLe", ip |-> dest]

\* proto.constants.strings of the prototypes explored
ConstStrings == <<"print">>

(***************************************************************************)
(* errors.rs and the err_* helpers of parser.rs.                           *)
(***************************************************************************)
NoError == [kind |-> "None", msg |-> ""]
new_parser(msg) == [kind |-> "Parser", msg |-> msg]
new_decoder(msg) == [kind |-> "Decoder", msg |-> msg]
err_stack_underflow == new_parser("operand stack underflow")
err_expr_expected == new_parser("expected expression")
err_partial_expected == new_parser("expected partial statement")
err_node_none == new_parser("no syntax node for bytecode")

\* outcomes of a handler on parser state p = [stack, nodes, blocks, local_end, local_namer]
Ok(p) == [res |-> "ok", error |-> NoError, p |-> p]
Err(e, p) == [res |-> "err", error |-> e, p |-> p]
Panic(p) == [res |-> "panic", error |-> NoError, p |-> p]

(***************************************************************************)
(* Namer (parser.rs 490-518).                                              *)
(***************************************************************************)
ASCII_CHARS == <<"a", "b", "c", "d", "e", "f", "g", "h", "i", "j", "k", "l", "m",
                 "n", "o", "p", "q", "r", "s", "t", "u", "v", "w", "x", "y", "z">>

RECURSIVE NamerBuf(_, _, _)
\* the characters pushed by the loop `for i in 0..len + 1`, from index i on
NamerBuf(count, i, len) ==
    IF i > len THEN ""
    ELSE ASCII_CHARS[((count + i) % Len(ASCII_CHARS)) + 1] \o NamerBuf(count, i + 1, len)

\* Namer::next that always returns one character
NamerNextOneChar(count) == NamerBuf(count, 0, 0)

\* Namer::next: the name returned; the count afterwards is count + 1
NamerNext(count) == NamerBuf(count, 0, count \div Len(ASCII_CHARS))

(***************************************************************************)
(* Taking fragments out of the nodes buffer:                               *)
(*   self.nodes[i].take().ok_or_else(err_node_none)?                       *)
(*                .into_expr().ok_or_else(err_expr_expected)?              *)
(***************************************************************************)
\* TakeExpr that copies the expression and leaves it in its slot
TakeExprCopy(ns, i) ==
    IF ns[i].t = "None"
    THEN [ok |-> FALSE, error |-> err_node_none, nodes |-> ns, expr |-> None]
    ELSE IF ns[i].t # "Expr"
    THEN [ok |-> FALSE, error |-> err_expr_expected,
          nodes |-> [ns EXCEPT ![i] = None], expr |-> None]
    ELSE [ok |-> TRUE, error |-> NoError, nodes |-> ns, expr |-> ns[i].e]

TakeExpr(ns, i) ==
    IF ns[i].t = "None"
    THEN [ok |-> FALSE, error |-> err_node_none, nodes |-> ns, expr |-> None]
    ELSE IF ns[i].t # "Expr"
    THEN [ok |-> FALSE, error |-> err_expr_expected,
          nodes |-> [ns EXCEPT ![i] = None], expr |-> None]
    ELSE [ok |-> TRUE, error |-> NoError,
          nodes |-> [ns EXCEPT ![i] = None], expr |-> ns[i].e]

RECURSIVE TakeExprs(_, _)
\* the argument loop of parse_call: take each Ip's expression in order, stop at the
\* first failure
TakeExprs(ns, ips) ==
    IF ips = <<>>
    THEN [ok |-> TRUE, error |-> NoError, nodes |-> ns, exprs |-> <<>>]
    ELSE LET t == TakeExpr(ns, Head(ips))
         IN IF ~t.ok
            THEN [ok |-> FALSE, error |-> t.error, nodes |-> t.nodes, exprs |-> <<>>]
            ELSE LET r == TakeExprs(t.nodes, Tail(ips))
                 IN [ok |-> r.ok, error |-> r.error, nodes |-> r.nodes,
                     exprs |-> <<t.expr>> \o r.exprs]

\* the non-empty nodes of slots lo..hi, in instruction order
NonEmpty(ns, lo, hi) ==
    IF hi < lo THEN <<>>
    ELSE SelectSeq([j \in 1..(hi - lo + 1) |-> ns[lo + j - 1]], LAMBDA n : n.t # "None")

(***************************************************************************)
(* Parser helpers (parser.rs 345-476).                                     *)
(***************************************************************************)
\* start_block
start_block(p, start, end) == [p EXCEPT !.blocks = Append(p.blocks, [start |-> start, end |-> end])]

\* end_block with the body slice taken as start..end: the head is swept into the body
end_block_from_start(p) ==
    IF p.blocks = <<>> THEN Ok(p)
    ELSE LET span == p.blocks[Len(p.blocks)]
             p1 == [p EXCEPT !.blocks = SubSeq(p.blocks, 1, Len(p.blocks) - 1)]
         IN IF span.start > span.end \/ span.end > Cardinality(DOMAIN p.nodes)
            THEN Panic(p1)
            ELSE LET body == NonEmpty(p1.nodes, span.start, span.end - 1)
                     ns1 == [i \in DOMAIN p1.nodes |->
                                IF span.start <= i /\ i < span.end THEN None ELSE p1.nodes[i]]
                     head == ns1[span.start]
                     ns2 == [ns1 EXCEPT ![span.start] = None]
                 IN IF head.t = "None" THEN Err(err_node_none, [p1 EXCEPT !.nodes = ns1])
                    ELSE IF head.t # "Partial"
                    THEN Err(err_partial_expected, [p1 EXCEPT !.nodes = ns2])
                    ELSE Ok([p1 EXCEPT !.nodes = [ns2 EXCEPT ![span.start] =
                                StmtNode(IfBlock(head.q.expr, body, <<>>))]])

\* end_block: pop the topmost span, move the nodes of (start, end) into the body of
\* an If that replaces the IfHead at start
end_block(p) ==
    IF p.blocks = <<>> THEN Ok(p)
    ELSE LET span == p.blocks[Len(p.blocks)]
             p1 == [p EXCEPT !.blocks = SubSeq(p.blocks, 1, Len(p.blocks) - 1)]
         IN IF span.start + 1 > span.end \/ span.end > Cardinality(DOMAIN p.nodes)
            THEN Panic(p1)   \* slice index out of range
            ELSE LET body == NonEmpty(p1.nodes, span.start + 1, span.end - 1)
                     ns1 == [i \in DOMAIN p1.nodes |->
                                IF span.start < i /\ i < span.end THEN None ELSE p1.nodes[i]]
                     head == ns1[span.start]
                     ns2 == [ns1 EXCEPT ![span.start] = None]
                 IN IF head.t = "None" THEN Err(err_node_none, [p1 EXCEPT !.nodes = ns1])
                    ELSE IF head.t # "Partial"
                    THEN Err(err_partial_expected, [p1 EXCEPT !.nodes = ns2])
                    ELSE IF head.q.k = "IfHead"
                    THEN Ok([p1 EXCEPT !.nodes = [ns2 EXCEPT ![span.start] =
                                StmtNode(IfBlock(head.q.expr, body, <<>>))]])
                    ELSE Panic([p1 EXCEPT !.nodes = ns2])   \* WhileHead, ForHead: todo!()

\* promote_local_var without the `!node.is_local_var()` test of line 411
promote_local_var_unguarded(p, nip) ==
    LET node == p.nodes[nip]
    IN IF node.t = "None" THEN Ok(p)
       ELSE IF node.t = "Expr"
       THEN Ok([p EXCEPT !.nodes = [p.nodes EXCEPT ![nip] =
                                       StmtNode(LocalVar(NamerNext(p.local_namer), node.e))],
                         !.local_namer = p.local_namer + 1,
                         !.local_end = p.local_end + 1])
       ELSE IF node.t = "Stmt"
       THEN Err(new_parser("a statement cannot be turned into a local variable declaration"),
                [p EXCEPT !.nodes = [p.nodes EXCEPT ![nip] = None]])
       ELSE Err(new_parser("a partially built statement cannot be turned into a local variable declaration"),
                [p EXCEPT !.nodes = [p.nodes EXCEPT ![nip] = None]])

\* promote_local_var: Ok(true) and Ok(false) are both Ok, the flag is never read
promote_local_var(p, nip) ==
    LET node == p.nodes[nip]
    IN IF node.t = "None" \/ is_local_var(node) THEN Ok(p)
       ELSE IF node.t = "Expr"
       THEN Ok([p EXCEPT !.nodes = [p.nodes EXCEPT ![nip] =
                                       StmtNode(LocalVar(NamerNext(p.local_namer), node.e))],
                         !.local_namer = p.local_namer + 1,
                         !.local_end = p.local_end + 1])
       ELSE IF node.t = "Stmt"
       THEN Err(new_parser("a statement cannot be turned into a local variable declaration"),
                [p EXCEPT !.nodes = [p.nodes EXCEPT ![nip] = None]])
       ELSE Err(new_parser("a partially built statement cannot be turned into a local variable declaration"),
                [p EXCEPT !.nodes = [p.nodes EXCEPT ![nip] = None]])

\* get_local_var_name that draws the next name of the Namer for a declared slot
get_local_var_name_fresh(p, local_id) ==
    IF local_id >= Len(p.stack) THEN [res |-> "panic", error |-> NoError, name |-> ""]
    ELSE LET node == p.nodes[p.stack[local_id + 1]]
         IN IF node.t = "None" THEN [res |-> "err", error |-> err_node_none, name |-> ""]
            ELSE IF node.t = "Stmt"
            THEN IF node.s.k = "LocalVar"
                 THEN [res |-> "ok", error |-> NoError, name |-> NamerNext(p.local_namer)]
                 ELSE [res |-> "err", name |-> "",
                       error |-> new_parser("unexpected statement in local variable node")]
            ELSE IF node.t = "Expr"
            THEN [res |-> "err", name |-> "",
                  error |-> new_parser("unexpected expression in local variable node")]
            ELSE [res |-> "err", name |-> "",
                  error |-> new_parser("unexpected partial statement in local variable node")]

\* get_local_var_name: [res, error, name]
get_local_var_name(p, local_id) ==
    IF local_id >= Len(p.stack) THEN [res |-> "panic", error |-> NoError, name |-> ""]
    ELSE LET node == p.nodes[p.stack[local_id + 1]]
         IN IF node.t = "None" THEN [res |-> "err", error |-> err_node_none, name |-> ""]
            ELSE IF node.t = "Stmt"
            THEN IF node.s.k = "LocalVar"
                 THEN [res |-> "ok", error |-> NoError, name |-> node.s.name]
                 ELSE [res |-> "err", name |-> "",
                       error |-> new_parser("unexpected statement in local variable node")]
            ELSE IF node.t = "Expr"
            THEN [res |-> "err", name |-> "",
                  error |-> new_parser("unexpected expression in local variable node")]
            ELSE [res |-> "err", name |-> "",
                  error |-> new_parser("unexpected partial statement in local variable node")]

(***************************************************************************)
(* The per-opcode handlers (parser.rs 170-343).                            *)
(***************************************************************************)
\* parse_call that leaves one result on the stack whatever the result count is
parse_call_one_result(p, at, stack_offset, results) ==
    IF stack_offset > Len(p.stack) THEN Panic(p)
    ELSE LET removed == SubSeq(p.stack, stack_offset + 1, Len(p.stack))
             kept == SubSeq(p.stack, 1, stack_offset)
         IN IF removed = <<>> THEN Panic([p EXCEPT !.stack = kept])
            ELSE LET name_ip == Head(removed)
                     arg_ips == Tail(removed)
                     p2 == [p EXCEPT !.stack = IF results = 0 THEN kept ELSE Append(kept, at)]
                     t == TakeExpr(p2.nodes, name_ip)
                     a == TakeExprs(t.nodes, arg_ips)
                     call == CallOf(t.expr, a.exprs)
                     node == IF results = 0 THEN StmtNode(StmtCall(call))
                                            ELSE ExprNode(ExprCall(call))
                 IN IF ~t.ok THEN Err(t.error, [p2 EXCEPT !.nodes = t.nodes])
                    ELSE IF ~a.ok THEN Err(a.error, [p2 EXCEPT !.nodes = a.nodes])
                    ELSE Ok([p2 EXCEPT !.nodes = [a.nodes EXCEPT ![at] = node]])

\* parse_call that pushes its Ip also when the call is a statement
parse_call_pushes_statement(p, at, stack_offset, results) ==
    IF stack_offset > Len(p.stack) THEN Panic(p)   \* split_off: at > len
    ELSE LET removed == SubSeq(p.stack, stack_offset + 1, Len(p.stack))
             kept == SubSeq(p.stack, 1, stack_offset)
         IN IF removed = <<>> THEN Panic([p EXCEPT !.stack = kept])   \* remove(0) of an empty Vec
            ELSE LET name_ip == Head(removed)
                     arg_ips == Tail(removed)
                     pushed == IF results = 0 THEN 1 ELSE results
                     p2 == [p EXCEPT !.stack = kept \o [i \in 1..pushed |-> at]]
                     t == TakeExpr(p2.nodes, name_ip)
                     a == TakeExprs(t.nodes, arg_ips)
                     call == CallOf(t.expr, a.exprs)
                     node == IF results = 0 THEN StmtNode(StmtCall(call))
                                            ELSE ExprNode(ExprCall(call))
                 IN IF ~t.ok THEN Err(t.error, [p2 EXCEPT !.nodes = t.nodes])
                    ELSE IF ~a.ok THEN Err(a.error, [p2 EXCEPT !.nodes = a.nodes])
                    ELSE Ok([p2 EXCEPT !.nodes = [a.nodes EXCEPT ![at] = node]])

parse_call(p, at, stack_offset, results) ==
    IF stack_offset > Len(p.stack) THEN Panic(p)   \* split_off: at > len
    ELSE LET removed == SubSeq(p.stack, stack_offset + 1, Len(p.stack))
             kept == SubSeq(p.stack, 1, stack_offset)
         IN IF removed = <<>> THEN Panic([p EXCEPT !.stack = kept])   \* remove(0) of an empty Vec
            ELSE LET name_ip == Head(removed)
                     arg_ips == Tail(removed)
                     p2 == [p EXCEPT !.stack = kept \o [i \in 1..results |-> at]]
                     t == TakeExpr(p2.nodes, name_ip)
                     a == TakeExprs(t.nodes, arg_ips)
                     call == CallOf(t.expr, a.exprs)
                     node == IF results = 0 THEN StmtNode(StmtCall(call))
                                            ELSE ExprNode(ExprCall(call))
                 IN IF ~t.ok THEN Err(t.error, [p2 EXCEPT !.nodes = t.nodes])
                    ELSE IF ~a.ok THEN Err(a.error, [p2 EXCEPT !.nodes = a.nodes])
                    ELSE Ok([p2 EXCEPT !.nodes = [a.nodes EXCEPT ![at] = node]])

\* parse_pop that also empties the node slots of the entries it removes
parse_pop_clearing(p, n) ==
    LET kept == IF n >= Len(p.stack) THEN <<>> ELSE SubSeq(p.stack, 1, Len(p.stack) - n)
        gone == {p.stack[k] : k \in (Len(kept) + 1)..Len(p.stack)}
    IN Ok([p EXCEPT !.stack = kept,
                    !.nodes = [i \in DOMAIN p.nodes |-> IF i \in gone THEN None ELSE p.nodes[i]]])

\* Vec::pop on an empty stack returns None, which the loop ignores
parse_pop(p, n) ==
    Ok([p EXCEPT !.stack = IF n >= Len(p.stack) THEN <<>>
                           ELSE SubSeq(p.stack, 1, Len(p.stack) - n)])

parse_push_int(p, at, value) ==
    Ok([p EXCEPT !.stack = Append(p.stack, at),
                 !.nodes = [p.nodes EXCEPT ![at] = ExprNode(LitInt(value))]])

parse_get_local(p, at, stack_offset) ==
    IF stack_offset >= Len(p.stack) THEN Panic(p)   \* self.stack[stack_offset]
    ELSE LET pr == promote_local_var(p, p.stack[stack_offset + 1])
             p2 == [pr.p EXCEPT !.stack = Append(pr.p.stack, at)]
             nm == get_local_var_name(p2, stack_offset)
         IN IF pr.res # "ok" THEN pr
            ELSE IF nm.res = "panic" THEN Panic(p2)
            ELSE IF nm.res = "err" THEN Err(nm.error, p2)
            ELSE Ok([p2 EXCEPT !.nodes = [p2.nodes EXCEPT ![at] = ExprNode(Access(nm.name))]])

get_global_var_name(string_id) ==
    IF string_id >= Len(ConstStrings) THEN [res |-> "panic", name |-> ""]
    ELSE [res |-> "ok", name |-> ConstStrings[string_id + 1]]

\* parse_get_global that puts its Ip under the stack instead of on top
parse_get_global_below(p, at, string_id) ==
    LET p2 == [p EXCEPT !.stack = <<at>> \o p.stack]
        nm == get_global_var_name(string_id)
    IN IF nm.res = "panic" THEN Panic(p2)
       ELSE Ok([p2 EXCEPT !.nodes = [p2.nodes EXCEPT ![at] = ExprNode(Access(nm.name))]])

parse_get_global(p, at, string_id) ==
    LET p2 == [p EXCEPT !.stack = Append(p.stack, at)]
        nm == get_global_var_name(string_id)
    IN IF nm.res = "panic" THEN Panic(p2)
       ELSE Ok([p2 EXCEPT !.nodes = [p2.nodes EXCEPT ![at] = ExprNode(Access(nm.name))]])

\* parse_set_local that reads the top entry and leaves it on the stack
parse_set_local_no_pop(p, at, stack_offset) ==
    IF stack_offset >= Len(p.stack) THEN Panic(p)   \* self.stack[stack_offset]
    ELSE LET pr == promote_local_var(p, p.stack[stack_offset + 1])
             rhs_ip == pr.p.stack[Len(pr.p.stack)]
             p2 == pr.p
             t == TakeExpr(p2.nodes, rhs_ip)
             p3 == [p2 EXCEPT !.nodes = t.nodes]
             nm == get_local_var_name(p3, stack_offset)
         IN IF pr.res # "ok" THEN pr
            ELSE IF ~t.ok THEN Err(t.error, p3)
            ELSE IF nm.res = "panic" THEN Panic(p3)
            ELSE IF nm.res = "err" THEN Err(nm.error, p3)
            ELSE Ok([p3 EXCEPT !.nodes = [p3.nodes EXCEPT ![at] =
                                             StmtNode(Assign(nm.name, t.expr))]])

parse_set_local(p, at, stack_offset) ==
    IF stack_offset >= Len(p.stack) THEN Panic(p)   \* self.stack[stack_offset]
    ELSE LET pr == promote_local_var(p, p.stack[stack_offset + 1])
             rhs_ip == pr.p.stack[Len(pr.p.stack)]
             p2 == [pr.p EXCEPT !.stack = SubSeq(pr.p.stack, 1, Len(pr.p.stack) - 1)]
             t == TakeExpr(p2.nodes, rhs_ip)
             p3 == [p2 EXCEPT !.nodes = t.nodes]
             nm == get_local_var_name(p3, stack_offset)
         IN IF pr.res # "ok" THEN pr
            ELSE IF ~t.ok THEN Err(t.error, p3)
            ELSE IF nm.res = "panic" THEN Panic(p3)
            ELSE IF nm.res = "err" THEN Err(nm.error, p3)
            ELSE Ok([p3 EXCEPT !.nodes = [p3.nodes EXCEPT ![at] =
                                             StmtNode(Assign(nm.name, t.expr))]])

parse_binary_op(p, at, op) ==
    IF Len(p.stack) = 0 THEN Err(err_stack_underflow, p)
    ELSE IF Len(p.stack) = 1 THEN Err(err_stack_underflow, [p EXCEPT !.stack = <<>>])
    ELSE LET rhs_ip == p.stack[Len(p.stack)]
             lhs_ip == p.stack[Len(p.stack) - 1]
             p2 == [p EXCEPT !.stack = SubSeq(p.stack, 1, Len(p.stack) - 2)]
             r == TakeExpr(p2.nodes, rhs_ip)
             l == TakeExpr(r.nodes, lhs_ip)
         IN IF ~r.ok THEN Err(r.error, [p2 EXCEPT !.nodes = r.nodes])
            ELSE IF ~l.ok THEN Err(l.error, [p2 EXCEPT !.nodes = l.nodes])
            ELSE Ok([p2 EXCEPT !.nodes = [l.nodes EXCEPT ![at] = ExprNode(BinExpr("Add", l.expr, r.expr))],
                               !.stack = Append(p2.stack, at)])

I32Max == 2147483647

\* parse_jump_le with the destination code.len() let through
parse_jump_le_inclusive(p, at, dest_ip, code_len) ==
    IF dest_ip > I32Max - (at + 1) \/ dest_ip < -I32Max - 1
    THEN Err(new_decoder("jump address overflow"), p)   \* checked_add
    ELSE LET end == (at + 1) + dest_ip
         IN IF end < 0 \/ end > code_len
            THEN Err(new_decoder("jump destination out of bounds"), p)
            ELSE LET p1 == start_block(p, at, end)
                 IN IF Len(p1.stack) = 0 THEN Err(err_stack_underflow, p1)
                    ELSE IF Len(p1.stack) = 1
                    THEN Err(err_stack_underflow, [p1 EXCEPT !.stack = <<>>])
                    ELSE LET rhs_ip == p1.stack[Len(p1.stack)]
                             lhs_ip == p1.stack[Len(p1.stack) - 1]
                             p2 == [p1 EXCEPT !.stack = SubSeq(p1.stack, 1, Len(p1.stack) - 2)]
                             l == TakeExpr(p2.nodes, lhs_ip)
                             r == TakeExpr(l.nodes, rhs_ip)
                         IN IF ~l.ok THEN Err(l.error, [p2 EXCEPT !.nodes = l.nodes])
                            ELSE IF ~r.ok THEN Err(r.error, [p2 EXCEPT !.nodes = r.nodes])
                            ELSE Ok([p2 EXCEPT !.nodes = [r.nodes EXCEPT ![at] =
                                        PartialNode(IfHead(CondBinary("Le", l.expr, r.expr)))]])

parse_jump_le(p, at, dest_ip, code_len) ==
    IF dest_ip > I32Max - (at + 1) \/ dest_ip < -I32Max - 1
    THEN Err(new_decoder("jump address overflow"), p)   \* checked_add
    ELSE LET end == (at + 1) + dest_ip
         IN IF end < 0 \/ end >= code_len
            THEN Err(new_decoder("jump destination out of bounds"), p)
            ELSE LET p1 == start_block(p, at, end)
                 IN IF Len(p1.stack) = 0 THEN Err(err_stack_underflow, p1)
                    ELSE IF Len(p1.stack) = 1
                    THEN Err(err_stack_underflow, [p1 EXCEPT !.stack = <<>>])
                    ELSE LET rhs_ip == p1.stack[Len(p1.stack)]
                             lhs_ip == p1.stack[Len(p1.stack) - 1]
                             p2 == [p1 EXCEPT !.stack = SubSeq(p1.stack, 1, Len(p1.stack) - 2)]
                             l == TakeExpr(p2.nodes, lhs_ip)
                             r == TakeExpr(l.nodes, rhs_ip)
                         IN IF ~l.ok THEN Err(l.error, [p2 EXCEPT !.nodes = l.nodes])
                            ELSE IF ~r.ok THEN Err(r.error, [p2 EXCEPT !.nodes = r.nodes])
                            ELSE Ok([p2 EXCEPT !.nodes = [r.nodes EXCEPT ![at] =
                                        PartialNode(IfHead(CondBinary("Le", l.expr, r.expr)))]])

(***************************************************************************)
(* Scribe (scribe.rs).  The writer is the sequence of the pieces written;  *)
(* writeln! writes its text and then "\n".  A scribe value is              *)
(* [res, out, level]; res # "ok" is the `?` that skips what follows.       *)
(***************************************************************************)
\* the writer of a scribe value is its `out`: a String, which never fails, or a
\* writer (limited) that fails once it holds `room` pieces
write(sc, text) ==
    IF sc.res # "ok" THEN sc
    ELSE IF sc.limited /\ Len(sc.out) >= sc.room THEN [sc EXCEPT !.res = "err"]
    ELSE [sc EXCEPT !.out = Append(@, text)]

writeln(sc, text) == write(IF text = "" THEN sc ELSE write(sc, text), "\n")

RECURSIVE fmt_indent_from(_, _)
fmt_indent_from(sc, i) ==
    IF i >= sc.level \/ sc.res # "ok" THEN sc ELSE fmt_indent_from(write(sc, "    "), i + 1)

fmt_indent(sc) == fmt_indent_from(sc, 0)

RECURSIVE fmt_expr(_, _)
RECURSIVE fmt_args(_, _, _)
RECURSIVE fmt_block(_, _)
RECURSIVE fmt_node(_, _)

fmt_lit(sc, e) ==
    IF sc.res # "ok" THEN sc
    ELSE IF e.lit = "Int" THEN write(sc, ToString(e.value))
    ELSE [sc EXCEPT !.res = "panic"]   \* Lit::Num, Lit::Str: todo!()

fmt_call(sc, call) ==
    write(fmt_args(write(fmt_expr(sc, call.name), "("), call.args, 0), ")")

fmt_args(sc, args, i) ==
    IF i >= Len(args) \/ sc.res # "ok" THEN sc
    ELSE fmt_args(fmt_expr(IF i # 0 THEN write(sc, ", ") ELSE sc, args[i + 1]), args, i + 1)

fmt_binary_expr(sc, e) ==
    fmt_expr(write(write(write(fmt_expr(sc, e.lhs), " "), "+"), " "), e.rhs)

fmt_expr(sc, e) ==
    IF sc.res # "ok" THEN sc
    ELSE IF e.k = "Access" THEN write(sc, e.ident)
    ELSE IF e.k = "Literal" THEN fmt_lit(sc, e)
    ELSE IF e.k = "Binary" THEN fmt_binary_expr(sc, e)
    ELSE fmt_call(sc, e.call)

CondOpText(op) ==
    CASE op = "Ne" -> "~=" [] op = "Eq" -> "==" [] op = "Lt" -> "<"
      [] op = "Le" -> "<=" [] op = "Gt" -> ">" [] op = "Ge" -> ">="

fmt_cond_expr(sc, c) ==
    IF sc.res # "ok" THEN sc
    ELSE IF c.k = "Unary" THEN [sc EXCEPT !.res = "panic"]   \* todo!("unary expression")
    ELSE fmt_expr(write(write(write(fmt_expr(sc, c.lhs), " "), CondOpText(c.op)), " "), c.rhs)

fmt_local_var(sc, s) ==
    writeln(fmt_expr(write(write(write(sc, "local "), s.name), " = "), s.rhs), "")

fmt_assign(sc, s) == writeln(fmt_expr(write(write(sc, s.name), " = "), s.rhs), "")

\* with_indent(|scribe| scribe.fmt_block(f, block)): the level is put back only when
\* the closure returned Ok
with_indent(sc, block) ==
    IF sc.res # "ok" THEN sc
    ELSE LET inner == fmt_block([sc EXCEPT !.level = @ + 1], block)
         IN IF inner.res # "ok" THEN inner ELSE [inner EXCEPT !.level = @ - 1]

fmt_block_stmt(sc, block) == writeln(with_indent(writeln(sc, "do"), block), "end")

fmt_if_block(sc, s) ==
    LET head == writeln(fmt_cond_expr(write(sc, "if "), s.head), " then")
        body == with_indent(head, s.then)
        alt == IF s.else_ = <<>> THEN body
               ELSE with_indent(writeln(body, "else"), s.else_[1])
    IN writeln(alt, "end")

fmt_stmt(sc, s) ==
    IF sc.res # "ok" THEN sc
    ELSE IF s.k = "LocalVar" THEN fmt_local_var(sc, s)
    ELSE IF s.k = "Call" THEN fmt_call(sc, s.call)
    ELSE IF s.k = "Assign" THEN fmt_assign(sc, s)
    ELSE IF s.k = "Block" THEN fmt_block_stmt(sc, s.block)
    ELSE fmt_if_block(sc, s)

fmt_node(sc, node) ==
    IF sc.res # "ok" THEN sc
    ELSE IF node.t = "Stmt" THEN fmt_stmt(sc, node.s)
    ELSE IF node.t = "Expr" THEN fmt_expr(sc, node.e)
    ELSE [sc EXCEPT !.res = "panic"]   \* panic!("partially built statement")

fmt_block(sc, block) ==
    IF block = <<>> \/ sc.res # "ok" THEN sc
    ELSE fmt_block(fmt_node(fmt_indent(sc), Head(block)), Tail(block))

\* Scribe::new() followed by fmt_syntax
ScribeNew == [res |-> "ok", out |-> <<>>, level |-> 0, limited |-> FALSE, room |-> 0]
fmt_syntax(sc, syntax_root) == fmt_block(sc, syntax_root)

(***************************************************************************)
(* The prototypes parsed.  A free prototype has code_len <= MaxCode        *)
(* instructions, each drawn from FreeOps when the loop reads it; the       *)
(* scenario prototypes are the end-to-end scenarios of the specification.  *)
(***************************************************************************)
FreeOps ==
    {OpEnd, OpReturn(1), OpAdd, OpPushInt(1), OpGetGlobal(0)}
        \cup {OpCall(a, b) : a \in 0..1, b \in 0..2}
        \cup {OpPop(n) : n \in 1..2}
        \cup {OpGetLocal(u) : u \in 0..1}
        \cup {OpSetLocal(u) : u \in 0..1}
        \cup {OpJumpLe(s) : s \in (-2..2) \cup {I32Max}}

ScenarioLocal == <<OpPushInt(1), OpEnd>>
ScenarioLocalAdd == <<OpPushInt(1), OpPushInt(2), OpAdd, OpEnd>>
ScenarioPrint == <<OpGetGlobal(0), OpPushInt(1), OpCall(0, 0), OpEnd>>
ScenarioTwoLocals == <<OpPushInt(1), OpGetLocal(0), OpPushInt(1), OpAdd, OpEnd>>
ScenarioIf ==
    <<OpPushInt(1), OpPushInt(2), OpJumpLe(3), OpGetGlobal(0), OpPushInt(3), OpCall(0, 0), OpEnd>>

\* an if inside an if: spans (2, 8) and (5, 7)
ScenarioNested ==
    <<OpPushInt(1), OpPushInt(2), OpJumpLe(5), OpPushInt(1), OpPushInt(2), OpJumpLe(1),
      OpPushInt(3), OpPop(1), OpEnd>>
\* two jumps to the same destination: spans (2, 7) and (5, 7)
ScenarioSameEnd ==
    <<OpPushInt(1), OpPushInt(2), OpJumpLe(4), OpPushInt(1), OpPushInt(2), OpJumpLe(1),
      OpPushInt(3), OpEnd>>
\* the later jump goes further than the earlier one: spans (2, 6) and (5, 8)
ScenarioCrossing ==
    <<OpPushInt(1), OpPushInt(2), OpJumpLe(3), OpPushInt(1), OpPushInt(2), OpJumpLe(2),
      OpPushInt(3), OpPushInt(3), OpEnd>>

\* an if with an empty body inside an if: spans (2, 7) and (5, 6)
ScenarioNestedEmpty ==
    <<OpPushInt(1), OpPushInt(2), OpJumpLe(4), OpPushInt(1), OpPushInt(2), OpJumpLe(0),
      OpReturn(1), OpEnd>>

Scenarios ==
    {ScenarioLocal, ScenarioLocalAdd, ScenarioPrint, ScenarioTwoLocals, ScenarioIf,
     ScenarioNested, ScenarioNestedEmpty, ScenarioSameEnd, ScenarioCrossing}

FreeProtos == {[i \in 1..n |-> Unread] : n \in 0..MaxCode}

\* proto.code.len(), which is proto.ops.len() (lua40.rs 481-486)
code_len == Len(ops)

\* a Local of the debug table Proto::locals (lua40.rs 188-194, 524-535)
Local(varname, startpc, endpc) ==
    [varname |-> varname, startpc |-> startpc, endpc |-> endpc]

\* Proto::locals of a prototype: stripped (no entry), or one entry that
\* covers slot 0 over the whole code
DebugTables(proto_ops) ==
    IF proto_ops \in Scenarios
    THEN {<<>>, <<Local("x", 0, Len(proto_ops))>>}
    ELSE {<<>>}

\* the decoder has returned the prototype when the parser runs: the value
\* keeps the part of the Proto that `ops` does not hold
DecIdle(locals) == [pc |-> "idle", locals |-> locals]

(***************************************************************************)
(* Parser::new and Parser::parse (parser.rs 100-168).                      *)
(***************************************************************************)
ParserNew(proto_ops) ==
    /\ ops = proto_ops
    /\ ip = 0
    /\ closed = FALSE
    /\ stack = <<>>
    /\ nodes = [i \in 0..(Len(proto_ops) - 1) |-> None]
    /\ blocks = <<>>
    /\ local_end = 0
    /\ local_namer = 0
    /\ result = "running"
    /\ error = NoError
    /\ root = <<>>
    /\ scribe = [res |-> "idle", out |-> <<>>, level |-> 0, limited |-> FALSE, room |-> 0]

Init == \E proto_ops \in FreeProtos \cup Scenarios :
            /\ ParserNew(proto_ops)
            /\ \E locals \in DebugTables(proto_ops) : dec = DecIdle(locals)

\* the parser state the handlers work on
P == [stack |-> stack, nodes |-> nodes, blocks |-> blocks,
      local_end |-> local_end, local_namer |-> local_namer]

\* the `?` after a handler: its state is kept, an Err or a panic ends parse
Commit(r) ==
    /\ stack' = r.p.stack
    /\ nodes' = r.p.nodes
    /\ blocks' = r.p.blocks
    /\ local_end' = r.p.local_end
    /\ local_namer' = r.p.local_namer
    /\ result' = IF r.res = "ok" THEN "running" ELSE r.res
    /\ error' = r.error

\* lines 128-132: the test `ip == block.end` on the topmost span is still to make
MustClose == ~closed /\ blocks # <<>> /\ blocks[Len(blocks)].end = ip

InLoop == result = "running" /\ ip < code_len

\* the instruction at ip, of the given opcode
Fetch(kind) ==
    IF ops[ip + 1] = Unread THEN {o \in FreeOps : o.op = kind}
    ELSE {o \in {ops[ip + 1]} : o.op = kind}

\* one loop iteration's match arm: run the handler, go to the next instruction
Dispatch(op, r) ==
    /\ ops' = [ops EXCEPT ![ip + 1] = op]
    /\ ip' = ip + 1
    /\ closed' = FALSE
    /\ Commit(r)
    /\ UNCHANGED <<root, scribe, dec>>

\* lines 126-132
EndBlock ==
    /\ InLoop /\ MustClose
    /\ closed' = TRUE
    /\ Commit(end_block(P))
    /\ UNCHANGED <<ops, ip, root, scribe, dec>>

\* the collection of the root block that also drops the spans still open
CollectClosingSpans ==
    /\ root' = NonEmpty(nodes, 0, code_len - 1)
    /\ nodes' = [i \in DOMAIN nodes |-> None]
    /\ result' = "ok"
    /\ blocks' = <<>>
    /\ UNCHANGED <<ip, closed, stack, local_end, local_namer, error, scribe, dec>>

\* lines 155-166: every remaining node is taken, in instruction order
Collect ==
    /\ root' = NonEmpty(nodes, 0, code_len - 1)
    /\ nodes' = [i \in DOMAIN nodes |-> None]
    /\ result' = "ok"
    /\ UNCHANGED <<ip, closed, stack, blocks, local_end, local_namer, error, scribe, dec>>

\* Op::End => break
StepEnd ==
    /\ InLoop /\ ~MustClose
    /\ \E op \in Fetch("End") : ops' = [ops EXCEPT ![ip + 1] = op]
    /\ Collect

\* the iterator is exhausted without an End
LoopExhausted ==
    /\ result = "running" /\ ip = code_len
    /\ ops' = ops
    /\ Collect

\* Op::Return { .. } => { /* todo */ }
StepReturn ==
    /\ InLoop /\ ~MustClose
    /\ \E op \in Fetch("Return") : Dispatch(op, Ok(P))

StepCall ==
    /\ InLoop /\ ~MustClose
    /\ \E op \in Fetch("Call") : Dispatch(op, parse_call(P, ip, op.stack_offset, op.results))

StepPop ==
    /\ InLoop /\ ~MustClose
    /\ \E op \in Fetch("Pop") : Dispatch(op, parse_pop(P, op.n))

StepPushInt ==
    /\ InLoop /\ ~MustClose
    /\ \E op \in Fetch("PushInt") : Dispatch(op, parse_push_int(P, ip, op.value))

StepGetLocal ==
    /\ InLoop /\ ~MustClose
    /\ \E op \in Fetch("GetLocal") : Dispatch(op, parse_get_local(P, ip, op.stack_offset))

StepGetGlobal ==
    /\ InLoop /\ ~MustClose
    /\ \E op \in Fetch("GetGlobal") : Dispatch(op, parse_get_global(P, ip, op.string_id))

StepSetLocal ==
    /\ InLoop /\ ~MustClose
    /\ \E op \in Fetch("SetLocal") : Dispatch(op, parse_set_local(P, ip, op.stack_offset))

StepAdd ==
    /\ InLoop /\ ~MustClose
    /\ \E op \in Fetch("Add") : Dispatch(op, parse_binary_op(P, ip, "Add"))

StepJumpLe ==
    /\ InLoop /\ ~MustClose
    /\ \E op \in Fetch("JumpLe") : Dispatch(op, parse_jump_le(P, ip, op.ip, code_len))

\* luad.rs 21-25: the Syntax of a successful parse is printed by a new Scribe
FmtSyntax ==
    /\ result = "ok" /\ scribe.res = "idle"
    /\ scribe' = fmt_syntax(ScribeNew, root)
    /\ UNCHANGED <<ops, ip, closed, stack, nodes, blocks, local_end, local_namer,
                   result, error, root, dec>>

Next ==
    \/ EndBlock
    \/ StepEnd
    \/ LoopExhausted
    \/ StepReturn
    \/ StepCall
    \/ StepPop
    \/ StepPushInt
    \/ StepGetLocal
    \/ StepGetGlobal
    \/ StepSetLocal
    \/ StepAdd
    \/ StepJumpLe
    \/ FmtSyntax

Spec == Init /\ [][Next]_vars

(***************************************************************************)
(* Decoder: instruction words (lua40.rs 212-323, 580-666).                 *)
(*                                                                         *)
(* A u32 is its four base-256 digits, least significant first (a function  *)
(* on 0..3): the integers of TLC stop at 2^31 - 1, and a word such         *)
(* as PushInt 1 is larger.  Headers are taken with 1 <= size_op,           *)
(* size_op + size_b <= size_instr_arg and size_instr_arg - size_op < 31,   *)
(* so that no shift or subtraction of the header arithmetic overflows and  *)
(* every field of a word fits a number.                                    *)
(***************************************************************************)
\* u32::from_le_bytes of the bytes read, first byte least significant
from_le_bytes(buf) == [i \in 0..(Len(buf) - 1) |-> buf[i + 1]]

\* bit i of a u32
Bit(w, i) == (w[i \div 8] \div (2 ^ (i % 8))) % 2

RECURSIVE Bits(_, _, _)
\* the number whose binary digits are the bits lo..hi of w
Bits(w, lo, hi) == IF lo > hi THEN 0 ELSE Bit(w, lo) + 2 * Bits(w, lo + 1, hi)

\* w >> n
shr(w, n) == Bits(w, n, 31)

\* w & mask1!(n, 0): the n lowest bits of w
and_mask1(w, n) == Bits(w, 0, n - 1)

OpcodeNames ==
    <<"End", "Return", "Call", "TailCall", "PushNil", "Pop", "PushInt", "PushString",
      "PushNum", "PushNegNum", "PushValue", "GetLocal", "GetGlobal", "GetTable",
      "GetDotted", "GetIndexed", "PushSelf", "CreateTable", "SetLocal", "SetGlobal",
      "SetTable", "SetList", "SetMap", "Add", "AddI", "Sub", "Mult", "Div", "Pow",
      "Concat", "Minus", "Not", "JumpNe", "JumpEq", "JumpLt", "JumpLe", "JumpGt",
      "JumpGe", "JumpTrue", "JumpFalse", "JumpOnTrue", "JumpOnFalse", "Jump",
      "PushNilJump", "ForPrep", "ForLoop", "LForPrep", "LForLoop", "Closure">>

\* impl TryFrom<u32> for Opcode
Opcode_try_from(value) ==
    IF value < Len(OpcodeNames)
    THEN [ok |-> TRUE, opcode |-> OpcodeNames[value + 1], error |-> NoError]
    ELSE [ok |-> FALSE, opcode |-> "",
          error |-> new_decoder("unknown opcode: 0x{value:02x}")]

\* impl Header
size_u(h) == h.size_instr_arg - h.size_op
max_arg_u(h) == (2 ^ size_u(h)) - 1
\* max_arg_s without the shift that gives the sign its bit
max_arg_s_unshifted(h) == max_arg_u(h)
max_arg_s(h) == max_arg_u(h) \div 2
\* pos_arg_a without the width of B
pos_arg_a_at_b(h) == h.size_op
pos_arg_a(h) == h.size_op + h.size_b
pos_arg_b(h) == h.size_op
max_arg_b(h) == (2 ^ h.size_b) - 1

\* Decoder::decode_op: [res, op, error]
decode_op(h, word) ==
    LET oc == Opcode_try_from(and_mask1(word, h.size_op))
        arg_u == shr(word, h.size_op)
        arg_s == arg_u - max_arg_s(h)
        arg_a == shr(word, pos_arg_a(h))
        arg_b == shr(word, pos_arg_b(h)) % (max_arg_b(h) + 1)
        done(op) == [res |-> "ok", op |-> op, error |-> NoError]
    IN IF ~oc.ok THEN [res |-> "err", op |-> Unread, error |-> oc.error]
       ELSE CASE oc.opcode = "End" -> done(OpEnd)
              [] oc.opcode = "Return" -> done(OpReturn(arg_u))
              [] oc.opcode = "Call" -> done(OpCall(arg_a, arg_b))
              [] oc.opcode = "Pop" -> done(OpPop(arg_u))
              [] oc.opcode = "PushInt" -> done(OpPushInt(arg_s))
              [] oc.opcode = "GetLocal" -> done(OpGetLocal(arg_u))
              [] oc.opcode = "GetGlobal" -> done(OpGetGlobal(arg_u))
              [] oc.opcode = "SetLocal" -> done(OpSetLocal(arg_u))
              [] oc.opcode = "Add" -> done(OpAdd)
              [] oc.opcode = "JumpLe" -> done(OpJumpLe(arg_s))
              [] OTHER -> [res |-> "panic", op |-> Unread, error |-> NoError]   \* todo!()

(***************************************************************************)
(* decode_op on its own: every header of Headers with every word of Words. *)
(***************************************************************************)
\* the word of the Lua 4.0 layout (6 opcode bits, 26 bits of U) as a u32
WordOf(opcode, u) ==
    (0 :> ((opcode + 64 * (u % 4)) % 256)) @@ (1 :> ((u \div 4) % 256))
        @@ (2 :> ((u \div 1024) % 256)) @@ (3 :> ((u \div 262144) % 256))

Headers ==
    {[size_instr_arg |-> a, size_op |-> o, size_b |-> 9] : a \in {16, 32}, o \in {4, 6}}

USamples == {0, 1, 511, 512, 1023, 4095, 33554430, 33554431, 33554432, 67108863}

Words == {WordOf(opcode, u) : opcode \in 0..63, u \in USamples}

DecodeOpInit ==
    /\ ParserNew(<<>>)
    /\ \E h \in Headers, w \in Words :
          dec = [pc |-> "decode_op", header |-> h, word |-> w,
                 out |-> [res |-> "none", op |-> Unread, error |-> NoError]]

DecodeOp ==
    /\ dec.pc = "decode_op"
    /\ dec' = [dec EXCEPT !.pc = "decoded", !.out = decode_op(dec.header, dec.word)]
    /\ UNCHANGED parserVars

SpecDecodeOp == DecodeOpInit /\ [][DecodeOp]_vars

(***************************************************************************)
(* Decoder: the chunk (lua40.rs 367-578, 670-717).                         *)
(*                                                                         *)
(* The bytes of the buffer are chosen as they are read, and the buffer may *)
(* end before any read (ReadPastEnd); dec.cursor counts the bytes          *)
(* consumed and dec.head keeps the bytes of the header that were read.  A  *)
(* buffer holds at most MaxEntries list entries in all (locals, line       *)
(* numbers, constants, nested prototypes, instructions).                   *)
(* read_function is followed read by read: dec.frames holds the prototypes *)
(* under construction, innermost last, each with the list it is reading    *)
(* (phase), the count that bounds its loop (count) and the entries still   *)
(* to read (left).                                                         *)
(***************************************************************************)
MaxEntries == 3

LUA_VERSION == 64
ID_CHUNK == 27
SIGNATURE == <<76, 117, 97>>
\* the bytes of 3.14159265358979323846E8 as f64 and as f32, least significant first
TEST_NUMBER == <<18, 230, 91, 161, 176, 185, 178, 65>>
TEST_NUMBER_f32 == <<133, 205, 149, 77>>

\* std::io::ErrorKind::UnexpectedEof of read_exact, through From<std::io::Error>
IoError == [kind |-> "Io", msg |-> "failed to fill whole buffer"]

HeaderDefault ==
    [version |-> LUA_VERSION, endianess |-> "Little", size_int |-> 0, size_t |-> 0,
     size_instr |-> 0, size_instr_arg |-> 0, size_op |-> 0, size_b |-> 0,
     number_type |-> "F64"]

\* Decoder::new
DecoderNew ==
    [pc |-> "header", header |-> HeaderDefault, head |-> <<>>, cursor |-> 0,
     entries |-> 0, frames |-> <<>>, proto |-> None, error |-> NoError]

\* read_u16, read_u32, read_u64: both arms of the match are from_le_bytes
read_uint(h, buf) ==
    IF h.endianess = "Little" THEN from_le_bytes(buf) ELSE from_le_bytes(buf)

\* read_f32, read_f64: the bits of the number, both arms from_le_bytes
read_float(h, buf) ==
    IF h.endianess = "Little" THEN from_le_bytes(buf) ELSE from_le_bytes(buf)

\* a length or count of 2^24 and more is kept as 2^24: it exceeds what the
\* buffers of the model hold, and all that it bounds ends at the end of the input
Huge == 2 ^ 24
as_usize(w) ==
    IF \E i \in DOMAIN w : i >= 3 /\ w[i] # 0 THEN Huge
    ELSE LET digit(i) == IF i \in DOMAIN w THEN w[i] ELSE 0
         IN digit(0) + 256 * digit(1) + 65536 * digit(2)

\* vec![0u8; len] cannot be allocated: len is beyond the address space
AllocFails(w) == \E i \in DOMAIN w : i >= 6 /\ w[i] # 0

\* CString::from_vec_with_nul: one NUL, at the end
from_vec_with_nul_ok(buf) ==
    /\ Len(buf) > 0
    /\ buf[Len(buf)] = 0
    /\ \A i \in 1..(Len(buf) - 1) : buf[i] # 0

\* CString::into_string: the bytes before the NUL are UTF-8 (a byte below 128
\* is; 255, the other byte of the inputs, never is)
into_string_ok(buf) == \A i \in 1..(Len(buf) - 1) : buf[i] < 128

\* Decoder::read_string on a length prefix and the bytes read_exact finds after
\* it: [res, string, error, used]
read_string(h, prefix, content) ==
    LET len == read_uint(h, prefix)
        out(r, str, e) ==
            [res |-> r, string |-> str, error |-> e, used |-> Len(prefix) + Len(content)]
    IN IF h.size_t \notin {2, 4, 8}
       THEN [res |-> "err", string |-> <<>>, used |-> 0,
             error |-> new_decoder("unknown size_t: " \o ToString(h.size_t))]
       ELSE IF AllocFails(len) THEN out("panic", <<>>, NoError)
       ELSE IF Len(content) < as_usize(len) THEN out("err", <<>>, IoError)
       ELSE IF ~from_vec_with_nul_ok(content)
       THEN out("err", <<>>, new_decoder("CString::from_vec_with_nul"))
       ELSE IF ~into_string_ok(content)
       THEN out("err", <<>>, new_decoder("CString::into_string"))
       ELSE out("ok", SubSeq(content, 1, Len(content) - 1), NoError)

\* read_endianess with the two byte orders exchanged
read_endianess_swapped(mark) == IF mark = 0 THEN "Little" ELSE "Big"

\* Decoder::read_endianess
read_endianess(mark) == IF mark = 0 THEN "Big" ELSE "Little"

\* Decoder::decode up to read_function, on the bytes of the header:
\* [res, header, error, used]
decode_header(bytemark, signature, version, mark, sizes, size_number, test) ==
    LET fail(msg, n) ==
            [res |-> "err", header |-> HeaderDefault, error |-> new_decoder(msg), used |-> n]
        number_type == IF size_number = 4 THEN "F32" ELSE "F64"
        h == [version |-> version,
              endianess |-> read_endianess(mark),
              size_int |-> sizes[1], size_t |-> sizes[2], size_instr |-> sizes[3],
              size_instr_arg |-> sizes[4], size_op |-> sizes[5], size_b |-> sizes[6],
              number_type |-> number_type]
        expected == IF number_type = "F32" THEN TEST_NUMBER_f32 ELSE TEST_NUMBER
    IN IF bytemark # ID_CHUNK
       THEN fail("chunk bytemark must be 'Esc'(27), found: {bytemark}", 1)
       ELSE IF signature # SIGNATURE THEN fail("bad signature", 4)
       ELSE IF version # LUA_VERSION
       THEN fail("expected Lua version 4.0(0x40), found: {version:02x}", 5)
       ELSE IF size_number \notin {4, 8}
       THEN fail("unknown number size: {size_number}", 13)
       ELSE IF Len(test) < Len(expected)
       THEN [res |-> "err", header |-> h, error |-> IoError, used |-> 13 + Len(test)]
       ELSE IF read_float(h, SubSeq(test, 1, Len(expected))) # from_le_bytes(expected)
       THEN [res |-> "err", header |-> h, used |-> 13 + Len(expected),
             error |-> new_decoder(IF number_type = "F32" THEN "unknown f32 number format"
                                   ELSE "unknown f64 number format")]
       ELSE [res |-> "ok", header |-> h, error |-> NoError, used |-> 13 + Len(expected)]

\* read_function without its decode loop: the ops stay the Op::End they are
\* created with
decode_ops_unfilled(h, code, done) ==
    [res |-> "ok", ops |-> [i \in 1..Len(code) |-> OpEnd], error |-> NoError]

RECURSIVE decode_ops(_, _, _)
\* the loop of read_function over the code: [res, ops, error]
decode_ops(h, code, done) ==
    IF Len(done) = Len(code) THEN [res |-> "ok", ops |-> done, error |-> NoError]
    ELSE LET r == decode_op(h, code[Len(done) + 1])
         IN IF r.res = "ok" THEN decode_ops(h, code, Append(done, r.op))
            ELSE [res |-> r.res, ops |-> done, error |-> r.error]

\* the lists of a prototype, in the order read_function reads them
NextPhase(phase) ==
    CASE phase = "locals" -> "lines"
      [] phase = "lines" -> "strings"
      [] phase = "strings" -> "numbers"
      [] phase = "numbers" -> "protos"
      [] phase = "protos" -> "code"

\* where read_function goes on once a count or an entry has been read
Resume(frames) ==
    LET f == frames[Len(frames)]
    IN IF f.left > 0
       THEN [pc |-> IF f.phase = "protos" THEN "function" ELSE "item", frames |-> frames]
       ELSE IF f.phase = "code" THEN [pc |-> "ops", frames |-> frames]
       ELSE [pc |-> "count",
             frames |-> [frames EXCEPT ![Len(frames)].phase = NextPhase(f.phase),
                                       ![Len(frames)].count = 0]]

\* the bytes the buffers of the model are made of
SignatureInputs == {SIGNATURE, <<76, 117, 0>>}
EndianInputs == {0, 1, 255}
SizeTInputs == {2, 4, 8, 3}
SizeNumberInputs == {4, 8, 5}
TestInputs ==
    {TEST_NUMBER, TEST_NUMBER_f32, <<65, 178, 185, 176, 161, 91, 230, 18>>, <<18, 230>>}
IntInputs == {<<1, 0, 0, 0>>}
CountInputs == {<<0, 0, 0, 0>>, <<1, 0, 0, 0>>, <<2, 0, 0, 0>>, <<0, 0, 0, 1>>}
PrefixInputs(k) ==
    {[i \in 1..k |-> IF i = 1 THEN n ELSE 0] : n \in 0..2}
        \cup {[i \in 1..k |-> IF i = k THEN 1 ELSE 0]}
StringInputs == {<<>>, <<97>>, <<97, 0>>, <<0, 0>>, <<255, 0>>}
NumberInputs == {<<0, 0, 0, 0, 0, 0, 240, 63>>}
\* End, PushInt 1, TailCall, and the opcode value 63
InstrInputs == {<<0, 0, 0, 0>>, <<6, 0, 0, 128>>, <<3, 0, 0, 0>>, <<63, 0, 0, 0>>}

\* the prefix and the bytes after it that a read_string can meet: all the
\* bytes of the string, or fewer where the buffer ends
StringReads(h) ==
    {rd \in [prefix : PrefixInputs(IF h.size_t \in {2, 4, 8} THEN h.size_t ELSE 1),
             content : StringInputs] :
        Len(rd.content) <= as_usize(read_uint(h, rd.prefix))}

DecoderInit == ParserNew(<<>>) /\ dec = DecoderNew

Top == dec.frames[Len(dec.frames)]

\* decode returns the error, or the process aborts: the prototypes under
\* construction are dropped
Failed(e) == dec' = [dec EXCEPT !.pc = "failed", !.error = e, !.frames = <<>>]

Aborted == dec' = [dec EXCEPT !.pc = "aborted", !.frames = <<>>]

\* an entry of the list of the innermost prototype has been read
EntryRead(frames, used) ==
    LET n == Len(frames)
        go == Resume([frames EXCEPT ![n].left = frames[n].left - 1])
    IN dec' = [dec EXCEPT !.pc = go.pc, !.frames = go.frames,
                          !.cursor = dec.cursor + used, !.entries = dec.entries + 1]

\* Decoder::decode, lines 368-394
DecodeHeader ==
    /\ dec.pc = "header"
    /\ \E bytemark \in {ID_CHUNK, 0}, signature \in SignatureInputs,
          version \in {LUA_VERSION, 80}, mark \in EndianInputs, size_t \in SizeTInputs,
          size_number \in SizeNumberInputs, test \in TestInputs :
          LET sizes == <<4, size_t, 4, 32, 6, 9>>
              r == decode_header(bytemark, signature, version, mark, sizes,
                                 size_number, test)
              bytes == <<bytemark>> \o signature \o <<version, mark>> \o sizes
                          \o <<size_number>> \o test
              head == SubSeq(bytes, 1, IF r.used < Len(bytes) THEN r.used ELSE Len(bytes))
          IN IF r.res = "ok"
             THEN dec' = [dec EXCEPT !.pc = "function", !.header = r.header,
                                     !.head = head, !.cursor = r.used]
             ELSE dec' = [dec EXCEPT !.pc = "failed", !.header = r.header,
                                     !.head = head, !.cursor = r.used,
                                     !.error = r.error]
    /\ UNCHANGED parserVars

\* read_function, lines 470-474: a new prototype, its source and its numbers
ReadFunctionHead ==
    /\ dec.pc = "function"
    /\ dec.frames # <<>> => dec.entries < MaxEntries
    /\ \E rd \in StringReads(dec.header), line_defined \in IntInputs,
          num_params \in IntInputs, is_vararg \in {1}, max_stack \in IntInputs :
          LET r == read_string(dec.header, rd.prefix, rd.content)
              frame == [source |-> r.string,
                        line_defined |-> read_uint(dec.header, line_defined),
                        num_params |-> read_uint(dec.header, num_params),
                        is_vararg |-> is_vararg # 0,
                        max_stack |-> read_uint(dec.header, max_stack),
                        locals |-> <<>>, lines |-> <<>>, strings |-> <<>>,
                        numbers |-> <<>>, protos |-> <<>>, code |-> <<>>,
                        phase |-> "locals", count |-> 0, left |-> 0]
          IN CASE r.res = "panic" -> Aborted
               [] r.res = "err" -> Failed(r.error)
               [] OTHER ->
                    dec' = [dec EXCEPT !.pc = "count",
                                       !.frames = Append(dec.frames, frame),
                                       !.cursor = dec.cursor + r.used + 13,
                                       !.entries = dec.entries
                                                     + IF dec.frames = <<>> THEN 0 ELSE 1]
    /\ UNCHANGED parserVars

\* the count at the head of read_locals, read_lines, the three lists of
\* read_constants and read_code.  Where the entries are plain numbers and the
\* count is more than the buffer can still hold, the loop reads to the end of
\* the buffer and read_exact fails.
ReadCount ==
    /\ dec.pc = "count"
    /\ \E buf \in CountInputs :
          LET n == Len(dec.frames)
              count == as_usize(read_uint(dec.header, buf))
              go == Resume([dec.frames EXCEPT ![n].count = count, ![n].left = count])
          IN IF Top.phase \in {"lines", "numbers", "code"} /\ count > MaxEntries - dec.entries
             THEN Failed(IoError)
             ELSE dec' = [dec EXCEPT !.pc = go.pc, !.frames = go.frames,
                                     !.cursor = dec.cursor + 4]
    /\ UNCHANGED parserVars

\* read_locals: one Local
ReadLocal ==
    /\ dec.pc = "item" /\ Top.phase = "locals"
    /\ dec.entries < MaxEntries
    /\ \E rd \in StringReads(dec.header), startpc \in IntInputs, endpc \in IntInputs :
          LET r == read_string(dec.header, rd.prefix, rd.content)
              n == Len(dec.frames)
              local == [varname |-> r.string,
                        startpc |-> read_uint(dec.header, startpc),
                        endpc |-> read_uint(dec.header, endpc)]
          IN CASE r.res = "panic" -> Aborted
               [] r.res = "err" -> Failed(r.error)
               [] OTHER ->
                    EntryRead([dec.frames EXCEPT ![n].locals = Append(@, local)],
                              r.used + 8)
    /\ UNCHANGED parserVars

\* read_lines: one line number
ReadLine ==
    /\ dec.pc = "item" /\ Top.phase = "lines"
    /\ dec.entries < MaxEntries
    /\ \E buf \in IntInputs :
          EntryRead([dec.frames EXCEPT
                        ![Len(dec.frames)].lines = Append(@, read_uint(dec.header, buf))], 4)
    /\ UNCHANGED parserVars

\* read_constants: one string
ReadConstString ==
    /\ dec.pc = "item" /\ Top.phase = "strings"
    /\ dec.entries < MaxEntries
    /\ \E rd \in StringReads(dec.header) :
          LET r == read_string(dec.header, rd.prefix, rd.content)
          IN CASE r.res = "panic" -> Aborted
               [] r.res = "err" -> Failed(r.error)
               [] OTHER ->
                    EntryRead([dec.frames EXCEPT
                                  ![Len(dec.frames)].strings = Append(@, r.string)], r.used)
    /\ UNCHANGED parserVars

\* read_constants: one number, always read_f64
ReadConstNumber ==
    /\ dec.pc = "item" /\ Top.phase = "numbers"
    /\ dec.entries < MaxEntries
    /\ \E buf \in NumberInputs :
          EntryRead([dec.frames EXCEPT
                        ![Len(dec.frames)].numbers = Append(@, read_float(dec.header, buf))],
                    8)
    /\ UNCHANGED parserVars

\* read_code: one instruction word
ReadInstr ==
    /\ dec.pc = "item" /\ Top.phase = "code"
    /\ dec.entries < MaxEntries
    /\ \E buf \in InstrInputs :
          EntryRead([dec.frames EXCEPT
                        ![Len(dec.frames)].code = Append(@, read_uint(dec.header, buf))], 4)
    /\ UNCHANGED parserVars

\* read_function, lines 481-499: the ops of the code, and the Proto, which
\* goes to the protos of the prototype that was reading it or out of decode
DecodeOps ==
    /\ dec.pc = "ops"
    /\ LET f == Top
           r == decode_ops(dec.header, f.code, <<>>)
           proto == [code |-> f.code, ops |-> r.ops, source |-> f.source,
                     line_defined |-> f.line_defined, num_params |-> f.num_params,
                     is_vararg |-> f.is_vararg, max_stack |-> f.max_stack,
                     locals |-> f.locals,
                     constants |-> [strings |-> f.strings, numbers |-> f.numbers,
                                    protos |-> f.protos],
                     lines |-> f.lines]
           n == Len(dec.frames)
       IN CASE r.res = "panic" -> Aborted
            [] r.res = "err" -> Failed(r.error)
            [] r.res = "ok" /\ n = 1 ->
                 dec' = [dec EXCEPT !.pc = "done", !.frames = <<>>, !.proto = proto]
            [] OTHER ->
                 LET outer == SubSeq(dec.frames, 1, n - 1)
                     go == Resume([outer EXCEPT ![n - 1].protos = Append(@, proto),
                                                ![n - 1].left = @ - 1])
                 IN dec' = [dec EXCEPT !.pc = go.pc, !.frames = go.frames]
    /\ UNCHANGED parserVars

\* the buffer ends where the decoder reads: read_exact fails, and ? returns
\* the Io error
ReadPastEnd ==
    /\ dec.pc \in {"header", "function", "count", "item"}
    /\ Failed(IoError)
    /\ UNCHANGED parserVars

DecoderNext ==
    \/ DecodeHeader
    \/ ReadFunctionHead
    \/ ReadCount
    \/ ReadLocal
    \/ ReadLine
    \/ ReadConstString
    \/ ReadConstNumber
    \/ ReadInstr
    \/ DecodeOps
    \/ ReadPastEnd

SpecDecoder == DecoderInit /\ [][DecoderNext]_vars

(***************************************************************************)
(* read_u16, read_u32, read_u64 on their own (lua40.rs 674-699): a header  *)
(* of either byte order with a buffer of 2, 4 or 8 bytes.                  *)
(***************************************************************************)
UintBufs ==
    {<<a, b>> : a, b \in {0, 1, 255}}
        \cup {<<a, b, c, d>> : a, b, c, d \in {0, 1, 255}}
        \cup {<<1, 0, 0, 0, 0, 0, 0, 0>>, <<0, 0, 0, 0, 0, 0, 0, 1>>}

ReadUintInit ==
    /\ ParserNew(<<>>)
    /\ \E e \in {"Little", "Big"}, buf \in UintBufs :
          dec = [pc |-> "read_uint", header |-> [HeaderDefault EXCEPT !.endianess = e],
                 buf |-> buf, out |-> <<>>]

ReadUint ==
    /\ dec.pc = "read_uint"
    /\ dec' = [dec EXCEPT !.pc = "uint_read", !.out = read_uint(dec.header, dec.buf)]
    /\ UNCHANGED parserVars

SpecReadUint == ReadUintInit /\ [][ReadUint]_vars

(***************************************************************************)
(* Helpers of the properties.                                              *)
(***************************************************************************)
RECURSIVE HasPartial(_)
\* a Partial in a block or in the body of an If of it
HasPartial(block) ==
    \E i \in 1..Len(block) :
        \/ block[i].t = "Partial"
        \/ /\ block[i].t = "Stmt" /\ block[i].s.k = "If"
           /\ \/ HasPartial(block[i].s.then)
              \/ block[i].s.else_ # <<>> /\ HasPartial(block[i].s.else_[1])

RECURSIVE Text(_)
\* the text a writer holds, its pieces joined
Text(out) == IF out = <<>> THEN "" ELSE Head(out) \o Text(Tail(out))

\* the instruction a handler step has just processed
Processed == ops'[ip + 1]

\* a loop iteration's handler runs in this step
HandlerStep == InLoop /\ ~MustClose /\ ip' = ip + 1

(***************************************************************************)
(* C1: whenever parse returns Ok(syntax), no node of the tree is a Partial *)
(* (a Partial left in the nodes buffer makes parse fail instead).          *)
(***************************************************************************)
C1_NoPartialInSyntax == result = "ok" => ~HasPartial(root)

(***************************************************************************)
(* C2: after parse returns Ok, the simulated operand stack is empty.       *)
(***************************************************************************)
C2_StackEmptyAfterParse == result = "ok" => stack = <<>>

(***************************************************************************)
(* C3: promotion is idempotent.  A GetLocal or SetLocal of a slot whose    *)
(* node is already a LocalVar declaration leaves that declaration (its     *)
(* name), local_end and the Namer's count as they are and raises no        *)
(* promotion error; for GetLocal the whole nodes buffer changes only at    *)
(* the instruction's own slot and the parse goes on.                       *)
(***************************************************************************)
C3_PromotionIdempotent ==
    [][(/\ HandlerStep
        /\ Processed.op \in {"GetLocal", "SetLocal"}
        /\ Processed.stack_offset < Len(stack)
        /\ is_local_var(nodes[stack[Processed.stack_offset + 1]]))
       => LET decl == stack[Processed.stack_offset + 1]
          IN /\ local_end' = local_end
             /\ local_namer' = local_namer
             /\ error'.msg \notin
                   {"a statement cannot be turned into a local variable declaration",
                    "a partially built statement cannot be turned into a local variable declaration"}
             /\ Processed.op = "GetLocal"
                   => /\ result' = "running"
                      /\ \A i \in DOMAIN nodes : i # ip => nodes'[i] = nodes[i]
                      /\ nodes'[ip] = ExprNode(Access(nodes[decl].s.name))
             /\ (Processed.op = "SetLocal" /\ result' = "running")
                   => nodes'[decl] = nodes[decl]]_vars

\* slot 0 was promoted by the first GetLocal 0 and read again by the second
C3_Witness ==
    /\ Len(ops) >= 3 /\ ip = 3 /\ result = "running"
    /\ ops[1] = OpPushInt(1) /\ ops[2] = OpGetLocal(0) /\ ops[3] = OpGetLocal(0)
    /\ local_end = 1 /\ local_namer = 1
    /\ nodes[0] = StmtNode(LocalVar("a", LitInt(1)))
    /\ nodes[2] = ExprNode(Access("a"))

(***************************************************************************)
(* C5: PushInt 1; End gives the root block [local a = 1] and the text      *)
(* "local a = 1"; PushInt 1; PushInt 2; Add; End gives [local a = 1 + 2]   *)
(* and the text "local a = 1 + 2".                                         *)
(***************************************************************************)
C5_LocalScenarios ==
    /\ (scribe.res # "idle" /\ ops = ScenarioLocal)
          => /\ root = <<StmtNode(LocalVar("a", LitInt(1)))>>
             /\ scribe.res = "ok" /\ Text(scribe.out) = "local a = 1\n"
    /\ (scribe.res # "idle" /\ ops = ScenarioLocalAdd)
          => /\ root = <<StmtNode(LocalVar("a", BinExpr("Add", LitInt(1), LitInt(2))))>>
             /\ scribe.res = "ok" /\ Text(scribe.out) = "local a = 1 + 2\n"

(***************************************************************************)
(* C6: PushInt 1; GetLocal 0; PushInt 1; Add; End gives a root block of    *)
(* exactly two LocalVar declarations with distinct names, the first with   *)
(* rhs 1, the second with rhs <first name> + 1.                            *)
(***************************************************************************)
C6_TwoLocalsScenario ==
    (result = "ok" /\ ops = ScenarioTwoLocals)
       => /\ Len(root) = 2
          /\ is_local_var(root[1]) /\ is_local_var(root[2])
          /\ root[1].s.name # root[2].s.name
          /\ root[1].s.rhs = LitInt(1)
          /\ root[2].s.rhs = BinExpr("Add", Access(root[1].s.name), LitInt(1))

(***************************************************************************)
(* C7: when the current Ip equals the end of the topmost open span, the    *)
(* span is popped and the IfHead at span.start is replaced by an If whose  *)
(* head is the IfHead's condition, whose then-body is the non-empty nodes  *)
(* strictly between start and end in instruction order and whose else arm  *)
(* is absent; afterwards every slot strictly between start and end is      *)
(* empty.  The if scenario yields the root block                           *)
(* [if 1 <= 2 then print(3) end].                                          *)
(***************************************************************************)
C7_EndBlockBuildsIf ==
    /\ [][(InLoop /\ MustClose)
          => LET span == blocks[Len(blocks)]
                 inside == {i \in DOMAIN nodes : span.start < i /\ i < span.end}
                 full == {i \in inside : nodes[i] # None}
                 made == nodes'[span.start]
             IN /\ result' = "running"
                /\ blocks' = SubSeq(blocks, 1, Len(blocks) - 1)
                /\ nodes[span.start].t = "Partial" /\ nodes[span.start].q.k = "IfHead"
                /\ made.t = "Stmt" /\ made.s.k = "If"
                /\ made.s.head = nodes[span.start].q.expr
                /\ made.s.else_ = <<>>
                /\ Len(made.s.then) = Cardinality(full)
                /\ \A i \in full :
                      made.s.then[Cardinality({j \in full : j <= i})] = nodes[i]
                /\ \A i \in inside : nodes'[i] = None
                /\ \A i \in DOMAIN nodes :
                      (i < span.start \/ i >= span.end) => nodes'[i] = nodes[i]
                /\ stack' = stack]_vars
    /\ []((result = "ok" /\ ops = ScenarioIf)
             => root = <<StmtNode(IfBlock(CondBinary("Le", LitInt(1), LitInt(2)),
                            <<StmtNode(StmtCall(CallOf(Access("print"), <<LitInt(3)>>)))>>,
                            <<>>))>>)

\* the if scenario has been parsed: its span was closed at the End instruction
C7_Witness ==
    /\ result = "ok" /\ ops = ScenarioIf /\ blocks = <<>>
    /\ Len(root) = 1 /\ root[1].t = "Stmt" /\ root[1].s.k = "If" /\ Len(root[1].s.then) = 1

\* an inner span has been closed inside a span that is still open
C7_WitnessNested ==
    /\ result = "running" /\ closed /\ Len(blocks) = 1
    /\ \E i \in DOMAIN nodes :
          /\ blocks[1].start < i /\ i < blocks[1].end
          /\ nodes[i].t = "Stmt" /\ nodes[i].s.k = "If" /\ nodes[i].s.then # <<>>

(***************************************************************************)
(* C8: Call A B at a stack depth greater than A.                           *)
(***************************************************************************)
\* the entries Call removes, and the stack it leaves: A + B entries
CallRemoved == SubSeq(stack, Processed.stack_offset + 1, Len(stack))
CallStackEffect ==
    stack' = SubSeq(stack, 1, Processed.stack_offset) \o [i \in 1..Processed.results |-> ip]

\* the node stored at the call's Ip: callee and arguments are the removed entries'
\* fragments in stack order, a statement when B = 0, an expression otherwise; the
\* removed entries' slots are emptied
CallNodeStored ==
    /\ nodes'[ip].t = (IF Processed.results = 0 THEN "Stmt" ELSE "Expr")
    /\ LET made == IF Processed.results = 0 THEN nodes'[ip].s ELSE nodes'[ip].e
       IN /\ made.k = "Call"
          /\ nodes[CallRemoved[1]].t = "Expr"
          /\ made.call.name = nodes[CallRemoved[1]].e
          /\ Len(made.call.args) = Len(CallRemoved) - 1
          /\ \A k \in 2..Len(CallRemoved) :
                /\ nodes[CallRemoved[k]].t = "Expr"
                /\ made.call.args[k - 1] = nodes[CallRemoved[k]].e
    /\ \A k \in 1..Len(CallRemoved) : nodes'[CallRemoved[k]] = None

CallStep == HandlerStep /\ Processed.op = "Call" /\ Len(stack) > Processed.stack_offset

\* every removed entry is an expression fragment of its own instruction
CallOperandsAreExprs ==
    /\ \A k \in 1..Len(CallRemoved) : nodes[CallRemoved[k]].t = "Expr"
    /\ \A k, m \in 1..Len(CallRemoved) : k # m => CallRemoved[k] # CallRemoved[m]

PrintScenarioRoot ==
    (result = "ok" /\ ops = ScenarioPrint)
       => root = <<StmtNode(StmtCall(CallOf(Access("print"), <<LitInt(1)>>)))>>

(***************************************************************************)
(* C8 as stated: every Call A B at a depth greater than A removes the      *)
(* entries from offset A upward, leaves A + B entries, and stores the      *)
(* Stmt::Call (B = 0) or Expr::Call built from the removed entries;        *)
(* GetGlobal print; PushInt 1; Call A=0 B=0; End yields print(1).          *)
(***************************************************************************)
C8_CallAsStated ==
    /\ [][CallStep => (CallStackEffect /\ CallNodeStored /\ result' = "running")]_vars
    /\ []PrintScenarioRoot

(***************************************************************************)
(* C8 amended: the stack effect is as stated for every such Call; the node *)
(* is stored as stated when every removed entry's slot holds an expression *)
(* fragment and no Ip occurs twice among them; otherwise parse returns a   *)
(* Parser error and no node is stored at the call's Ip.                    *)
(***************************************************************************)
C8_CallAmended ==
    /\ [][CallStep
          => /\ CallStackEffect
             /\ CallOperandsAreExprs => (CallNodeStored /\ result' = "running")
             /\ ~CallOperandsAreExprs
                   => /\ result' = "err" /\ error'.kind = "Parser"
                      /\ nodes'[ip] = None]_vars
    /\ []PrintScenarioRoot

\* print(1) has been parsed
C8_Witness ==
    /\ result = "ok" /\ ops = ScenarioPrint /\ stack = <<>>
    /\ root = <<StmtNode(StmtCall(CallOf(Access("print"), <<LitInt(1)>>)))>>

\* a call with two results above one kept entry has been processed: depth A + B = 3
C8_WitnessResults ==
    /\ result = "running" /\ ip >= 1 /\ ops[ip].op = "Call"
    /\ ops[ip].stack_offset = 1 /\ ops[ip].results = 2
    /\ Len(stack) = 3 /\ nodes[ip - 1].t = "Expr" /\ nodes[ip - 1].e.k = "Call"

(***************************************************************************)
(* C4 and C9: decode_op.                                                   *)
(***************************************************************************)
\* u_bits of the decoded word's header, and 2^(u_bits - 1)
UBits == dec.header.size_instr_arg - dec.header.size_op
HalfRange == 2 ^ (UBits - 1)
\* a word has been decoded into an Op with an S field, and S
DecodedS == dec.pc = "decoded" /\ dec.out.res = "ok" /\ dec.out.op.op \in {"PushInt", "JumpLe"}
SField == IF dec.out.op.op = "PushInt" THEN dec.out.op.value ELSE dec.out.op.ip

C4_WitnessLow ==
    /\ DecodedS /\ dec.header.size_instr_arg = 32 /\ dec.header.size_op = 6
    /\ dec.word = WordOf(35, 0) /\ SField = -33554431

(***************************************************************************)
(* C9: decode_op is total: a word whose opcode field is one of 0..48       *)
(* decodes to an Op, any other opcode value gives a Decoder error, and no  *)
(* word makes it abort.                                                    *)
(***************************************************************************)
C9_DecodeOpTotal ==
    dec.pc = "decoded"
       => /\ dec.out.res # "panic"
          /\ dec.out.res = "ok" <=> and_mask1(dec.word, dec.header.size_op) <= 48
          /\ dec.out.res = "err"
                => dec.out.error.kind = "Decoder"

(***************************************************************************)
(* C10: the chunk decoder.                                                 *)
(***************************************************************************)
RECURSIVE LinesMatchCode(_)
\* in proto and in every prototype nested in it, a line table that is not
\* empty has one entry for each instruction
LinesMatchCode(proto) ==
    /\ proto.lines # <<>> => Len(proto.lines) = Len(proto.code)
    /\ \A i \in 1..Len(proto.constants.protos) : LinesMatchCode(proto.constants.protos[i])

(***************************************************************************)
(* C10: in every Proto of a successful decode whose line table is not      *)
(* empty, the line table has as many entries as the prototype has          *)
(* instructions.                                                           *)
(***************************************************************************)
C10_LinesMatchCode == dec.pc = "done" => LinesMatchCode(dec.proto)

(***************************************************************************)
(* C11: ops, code and the count of the code segment.                       *)
(***************************************************************************)
RECURSIVE OpsDecodeCode(_, _)
\* in proto and in every prototype nested in it, there are as many ops as
\* instruction words and op i is the decoding of word i under header h
OpsDecodeCode(h, proto) ==
    /\ Len(proto.ops) = Len(proto.code)
    /\ \A i \in 1..Len(proto.code) :
          LET r == decode_op(h, proto.code[i])
          IN r.res = "ok" /\ proto.ops[i] = r.op
    /\ \A i \in 1..Len(proto.constants.protos) :
          OpsDecodeCode(h, proto.constants.protos[i])

\* the step of read_function that makes the Proto of the innermost prototype
ProtoMade ==
    /\ dec.pc = "ops"
    /\ dec'.pc \notin {"failed", "aborted"}

\* the Proto made by that step
MadeProto ==
    IF dec'.pc = "done" THEN dec'.proto
    ELSE LET outer == dec'.frames[Len(dec'.frames)]
         IN outer.protos[Len(outer.protos)]

(***************************************************************************)
(* C11: every Proto made by read_function has the words that read_code     *)
(* read, as many as the count prefix of the code segment says, and as many *)
(* ops, op i being the decoding of word i; so has every Proto of a         *)
(* successful decode, nested ones included.                                *)
(***************************************************************************)
C11_OpsMatchCode ==
    /\ [][ProtoMade => /\ MadeProto.code = Top.code
                       /\ Len(MadeProto.code) = Top.count
                       /\ Len(MadeProto.ops) = Top.count]_vars
    /\ [](dec.pc = "done" => OpsDecodeCode(dec.header, dec.proto))

\* a decode has succeeded with two instructions, End and PushInt 1, and a
\* nested prototype
C11_Witness ==
    /\ dec.pc = "done"
    /\ Len(dec.proto.code) = 2
    /\ dec.proto.ops = <<OpEnd, OpPushInt(1)>>
    /\ dec.proto.constants.protos # <<>>

(***************************************************************************)
(* C12: the fields of a word, by arithmetic on its two 16-bit halves.      *)
(***************************************************************************)
WordLo == dec.word[0] + 256 * dec.word[1]
WordHi == dec.word[2] + 256 * dec.word[3]
\* word >> n and word & (2^n - 1), for n <= 16
WordShr(n) == WordHi * (2 ^ (16 - n)) + (WordLo \div (2 ^ n))
WordLow(n) == WordLo % (2 ^ n)

FieldU == WordShr(dec.header.size_op)
FieldS == FieldU - ((2 ^ (UBits - 1)) - 1)
FieldA == WordShr(dec.header.size_op + dec.header.size_b)
FieldB == FieldU % (2 ^ dec.header.size_b)

\* the Op of each opcode value that decodes, with the field it uses
ExpectedOp(opcode) ==
    CASE opcode = 0 -> OpEnd
      [] opcode = 1 -> OpReturn(FieldU)
      [] opcode = 2 -> OpCall(FieldA, FieldB)
      [] opcode = 5 -> OpPop(FieldU)
      [] opcode = 6 -> OpPushInt(FieldS)
      [] opcode = 11 -> OpGetLocal(FieldU)
      [] opcode = 12 -> OpGetGlobal(FieldU)
      [] opcode = 18 -> OpSetLocal(FieldU)
      [] opcode = 23 -> OpAdd
      [] opcode = 35 -> OpJumpLe(FieldS)

(***************************************************************************)
(* C12: a decoded Op is the Op of opcode = word & (2^o - 1), and carries   *)
(* U = word >> o (Return, Pop, GetLocal, GetGlobal, SetLocal),             *)
(* S = U - (2^(u_bits-1) - 1) (PushInt, JumpLe), or A = word >> (o+b) as   *)
(* stack_offset and B = (word >> o) & (2^b - 1) as results (Call).         *)
(***************************************************************************)
C12_FieldExtraction ==
    (dec.pc = "decoded" /\ dec.out.res = "ok")
       => /\ WordLow(dec.header.size_op) \in {0, 1, 2, 5, 6, 11, 12, 18, 23, 35}
          /\ dec.out.op = ExpectedOp(WordLow(dec.header.size_op))

\* a Call with A = 1 and B = 511 has been decoded under the Lua 4.0 layout
C12_Witness ==
    /\ dec.pc = "decoded" /\ dec.out.res = "ok"
    /\ dec.header = [size_instr_arg |-> 32, size_op |-> 6, size_b |-> 9]
    /\ dec.word = WordOf(2, 1023)
    /\ dec.out.op = OpCall(1, 511)

(***************************************************************************)
(* C13: the header.                                                        *)
(***************************************************************************)
\* decode has read the header, all of it or up to the byte it rejects
HeaderRead == dec.pc = "header" /\ dec'.head # <<>>

\* decode returns the Decoder error of the given message, and no Proto
RejectedWith(msg) ==
    /\ dec'.pc = "failed"
    /\ dec'.error = [kind |-> "Decoder", msg |-> msg]
    /\ dec'.proto = None

(***************************************************************************)
(* C13: decode rejects with a Decoder error and no Proto a first byte that *)
(* is not 0x1B, else three bytes that are not "Lua", else a version that   *)
(* is not 0x40, else a size_number_bytes that is neither 4 nor 8; the      *)
(* endianness byte selects big-endian when 0 and little-endian otherwise,  *)
(* and a header with the right test number is accepted whatever it is.     *)
(***************************************************************************)
C13_HeaderValidation ==
    [][HeaderRead =>
         LET h == dec'.head
         IN IF h[1] # 27
            THEN RejectedWith("chunk bytemark must be 'Esc'(27), found: {bytemark}")
            ELSE IF SubSeq(h, 2, 4) # <<76, 117, 97>> THEN RejectedWith("bad signature")
            ELSE IF h[5] # 64
            THEN RejectedWith("expected Lua version 4.0(0x40), found: {version:02x}")
            ELSE IF h[13] \notin {4, 8}
            THEN RejectedWith("unknown number size: {size_number}")
            ELSE /\ dec'.header.endianess = IF h[6] = 0 THEN "Big" ELSE "Little"
                 /\ dec'.pc = "failed"
                       => dec'.error \in {IoError,
                                          new_decoder("unknown f32 number format"),
                                          new_decoder("unknown f64 number format")}
                 /\ SubSeq(h, 14, Len(h)) = (IF h[13] = 4 THEN TEST_NUMBER_f32
                                             ELSE TEST_NUMBER)
                       => dec'.pc = "function"]_vars

\* a header with a good bytemark and signature was rejected for its version
C13_Witness ==
    /\ dec.pc = "failed" /\ Len(dec.head) = 5
    /\ dec.head[1] = 27 /\ dec.head[5] = 80
    /\ dec.error.kind = "Decoder"

\* a header whose endianness byte is 255 was accepted as little-endian
C13_WitnessEndian ==
    /\ dec.pc = "function" /\ dec.head[6] = 255 /\ dec.header.endianess = "Little"

(***************************************************************************)
(* C14: byte order of the integer reads.                                   *)
(***************************************************************************)
\* the bytes of buf in the opposite order
Reversed(buf) == [i \in 1..Len(buf) |-> buf[Len(buf) + 1 - i]]

(***************************************************************************)
(* C14: an integer field is decoded in the byte order of the header: under *)
(* a little-endian header the first byte is the least significant, and the *)
(* same bytes under a big-endian header give the byte-reversed value.      *)
(***************************************************************************)
C14_ByteOrderHonoured ==
    dec.pc = "uint_read"
       => dec.out = IF dec.header.endianess = "Big"
                    THEN from_le_bytes(Reversed(dec.buf))
                    ELSE from_le_bytes(dec.buf)

(***************************************************************************)
(* C15: stack underflow.                                                   *)
(***************************************************************************)
\* the instruction asks for more of the stack than there is
Underflow(op) ==
    CASE op.op = "Pop" -> op.n > Len(stack)
      [] op.op \in {"Call", "GetLocal", "SetLocal"} -> op.stack_offset >= Len(stack)
      [] op.op \in {"Add", "JumpLe"} -> Len(stack) < 2
      [] OTHER -> FALSE

(***************************************************************************)
(* C15: a handler that finds the stack too short (Pop n with n above the   *)
(* depth; Call, GetLocal or SetLocal with an offset not below the depth;   *)
(* Add or JumpLe with fewer than two entries) ends the parse with a Parser *)
(* error: no abort, no silent success.                                     *)
(***************************************************************************)
C15_UnderflowIsParserError ==
    [][(HandlerStep /\ Underflow(Processed))
          => (result' = "err" /\ error'.kind = "Parser")]_vars

(***************************************************************************)
(* C16: the Ip in the errors of parse.                                     *)
(***************************************************************************)
\* what the handler of op returns when the parser, in its present state, runs
\* it as the instruction at index at
HandlerAt(op, at) ==
    CASE op.op = "Call" -> parse_call(P, at, op.stack_offset, op.results)
      [] op.op = "Pop" -> parse_pop(P, op.n)
      [] op.op = "PushInt" -> parse_push_int(P, at, op.value)
      [] op.op = "GetLocal" -> parse_get_local(P, at, op.stack_offset)
      [] op.op = "GetGlobal" -> parse_get_global(P, at, op.string_id)
      [] op.op = "SetLocal" -> parse_set_local(P, at, op.stack_offset)
      [] op.op = "Add" -> parse_binary_op(P, at, "Add")
      [] op.op = "JumpLe" -> parse_jump_le(P, at, op.ip, code_len)
      [] OTHER -> Ok(P)

(***************************************************************************)
(* C16: an error returned by parse identifies the Ip of the instruction    *)
(* that failed: the same instruction failing on the same parser state at   *)
(* another index of the code does not give the same error.                 *)
(***************************************************************************)
C16_ErrorNamesIp ==
    [][(HandlerStep /\ result' = "err")
          => /\ error' = HandlerAt(Processed, ip).error
             /\ \A other \in (0..(code_len - 1)) \ {ip} :
                   HandlerAt(Processed, other).res = "err"
                      => HandlerAt(Processed, other).error # error']_vars

(***************************************************************************)
(* C17: when the prototype carries a debug Local table whose first entry   *)
(* covers slot 0 over the whole code, the declaration of slot 0 (the first *)
(* LocalVar of the root block) takes the entry's varname and not a         *)
(* synthesized name.                                                       *)
(***************************************************************************)
FirstLocalVar(block) ==
    CHOOSE i \in 1..Len(block) :
        is_local_var(block[i]) /\ \A j \in 1..(i - 1) : ~is_local_var(block[j])

MaxNames == 120

NamerInit ==
    /\ ParserNew(<<>>)
    /\ dec = [pc |-> "namer", name |-> ""]

NamerStep ==
    /\ local_namer < MaxNames
    /\ local_namer' = local_namer + 1
    /\ dec' = [dec EXCEPT !.name = NamerNext(local_namer)]
    /\ UNCHANGED <<ops, ip, closed, stack, nodes, blocks, local_end, result, error,
                   root, scribe>>

SpecNamer == NamerInit /\ [][NamerStep]_vars

(***************************************************************************)
(* C18: on a fresh Namer, calls 1..26 of Namer::next return a, ..., z and  *)
(* the calls after them return aa, ab, ..., az, ba, ... in that order.     *)
(***************************************************************************)
\* the name of call number `call` in the sequence a, ..., z, aa, ab, ...
NameOfCall(call) ==
    IF call <= 26 THEN ASCII_CHARS[call]
    ELSE ASCII_CHARS[((call - 27) \div 26) + 1] \o ASCII_CHARS[((call - 27) % 26) + 1]

C18_NamerSequence ==
    (dec.pc = "namer" /\ local_namer \in 1..(26 + 26 * 26))
       => dec.name = NameOfCall(local_namer)

(***************************************************************************)
(* C19: the Scribe ends every statement with a newline, a Stmt::Call       *)
(* included, so the text written for a statement of the root block ends    *)
(* with "\n" and the output holds at least one newline for each statement  *)
(* of the root block (no two statements share a line).                     *)
(***************************************************************************)
Newlines(out) == Cardinality({i \in 1..Len(out) : out[i] = "\n"})

Statements(block) == {i \in 1..Len(block) : block[i].t = "Stmt"}

EndsLine(out) == out # <<>> /\ out[Len(out)] = "\n"

C19_StatementsEndLines ==
    (scribe.res = "ok")
       => /\ \A i \in Statements(root) : EndsLine(fmt_node(ScribeNew, root[i]).out)
          /\ Newlines(scribe.out) >= Cardinality(Statements(root))

(***************************************************************************)
(* C20: every output line of a statement at nesting depth d begins with    *)
(* exactly d indentations of four spaces: the `if ... then`, `else` and    *)
(* `end` lines of an If at depth d, and the statements of its arms at      *)
(* depth d + 1.  Stated for root blocks made of statements that end their  *)
(* lines (LocalVar, Assign, If).                                           *)
(***************************************************************************)
RECURSIVE LinesOnly(_)
LinesOnly(block) ==
    \A i \in 1..Len(block) :
        /\ block[i].t = "Stmt"
        /\ block[i].s.k \in {"LocalVar", "Assign", "If"}
        /\ block[i].s.k = "If"
              => /\ LinesOnly(block[i].s.then)
                 /\ block[i].s.else_ # <<>> => LinesOnly(block[i].s.else_[1])

RECURSIVE Depths(_, _)
\* the nesting depth of each line of a block at depth d, in output order
Depths(block, d) ==
    IF block = <<>> THEN <<>>
    ELSE LET stmt == Head(block).s
             own == IF stmt.k # "If" THEN <<d>>
                    ELSE <<d>> \o Depths(stmt.then, d + 1)
                           \o (IF stmt.else_ = <<>> THEN <<>>
                               ELSE <<d>> \o Depths(stmt.else_[1], d + 1))
                           \o <<d>>
         IN own \o Depths(Tail(block), d)

RECURSIVE Indents(_, _, _)
\* the number of leading "    " pieces of each line of the output
Indents(out, count, leading) ==
    IF out = <<>> THEN <<>>
    ELSE IF Head(out) = "\n" THEN <<count>> \o Indents(Tail(out), 0, TRUE)
    ELSE IF leading /\ Head(out) = "    " THEN Indents(Tail(out), count + 1, TRUE)
    ELSE Indents(Tail(out), count, FALSE)

C20_LinesIndented ==
    (scribe.res = "ok" /\ LinesOnly(root))
       => Indents(scribe.out, 0, TRUE) = Depths(root, 0)

(***************************************************************************)
(* C21: every span opened by a conditional jump is closed by the time the  *)
(* instruction at its end has been processed: no span is open whose end    *)
(* lies before the instruction to process next, and none whose end is at   *)
(* or before the instruction that ended a successful parse.                *)
(***************************************************************************)
C21_SpansClosedAtEnd ==
    /\ result = "running" => \A k \in 1..Len(blocks) : blocks[k].end >= ip
    /\ result = "ok" => \A k \in 1..Len(blocks) : blocks[k].end > ip

(***************************************************************************)
(* C22: a conditional jump at ip with operand S and destination            *)
(* end = ip + 1 + S.                                                       *)
(***************************************************************************)
JumpStep == HandlerStep /\ Processed.op = "JumpLe"

\* ip + 1 + S leaves the range of i32
JumpOverflows == Processed.ip > I32Max - (ip + 1)

JumpEnd == (ip + 1) + Processed.ip

\* the jump is let through: its span is pushed onto the span stack
JumpAccepted == blocks' = Append(blocks, [start |-> ip, end |-> JumpEnd])

\* the jump is refused: a jump-out-of-range error and no span
JumpRejected ==
    /\ result' = "err"
    /\ error' \in {new_decoder("jump destination out of bounds"),
                   new_decoder("jump address overflow")}
    /\ blocks' = blocks

(***************************************************************************)
(* C22 as stated: the jump is accepted exactly when 0 <= end <= code.len() *)
(* and every other destination fails with a jump-out-of-range error and    *)
(* opens no span.                                                          *)
(***************************************************************************)
C22_JumpRangeAsStated ==
    [][JumpStep
          => IF ~JumpOverflows /\ 0 <= JumpEnd /\ JumpEnd <= code_len
             THEN JumpAccepted ELSE JumpRejected]_vars

(***************************************************************************)
(* C22 amended: the jump is accepted (its span is pushed, whatever the     *)
(* operand stack holds) exactly when 0 <= end < code.len(); every other    *)
(* destination, code.len() included, fails with a jump-out-of-range error  *)
(* and opens no span.                                                      *)
(***************************************************************************)
C22_JumpRangeAmended ==
    [][JumpStep
          => IF ~JumpOverflows /\ 0 <= JumpEnd /\ JumpEnd < code_len
             THEN JumpAccepted ELSE JumpRejected]_vars

\* a jump to code.len(), one past the last instruction, has been refused
C22_Witness ==
    /\ result = "err" /\ error = new_decoder("jump destination out of bounds")
    /\ ip >= 1 /\ ops[ip].op = "JumpLe" /\ ops[ip].ip # I32Max
    /\ ip + ops[ip].ip = code_len
    /\ blocks = <<>>

\* a jump to the last instruction has been accepted
C22_WitnessAccepted ==
    /\ result = "running" /\ ip >= 1 /\ ops[ip].op = "JumpLe"
    /\ blocks = <<[start |-> ip - 1, end |-> code_len - 1]>>

(***************************************************************************)
(* C23: after every instruction, local_end separates the locals from the   *)
(* temporaries of the simulated stack: the node that produced a stack slot *)
(* is a LocalVar declaration if and only if the slot's offset is below     *)
(* local_end.                                                              *)
(***************************************************************************)
C23_LocalEndBoundary ==
    (result = "running")
       => \A offset \in 0..(Len(stack) - 1) :
             is_local_var(nodes[stack[offset + 1]]) <=> offset < local_end

(***************************************************************************)
(* C24: SetLocal U at ip.                                                  *)
(***************************************************************************)
SetLocalStep == HandlerStep /\ Processed.op = "SetLocal"

\* the Ip that produced slot U, and the Ip of the top entry
SlotIp == stack[Processed.stack_offset + 1]
TopIp == stack[Len(stack)]

\* depth at least U + 2, slot U produced by an expression or a declaration
SetLocalCase ==
    /\ SetLocalStep
    /\ Len(stack) >= Processed.stack_offset + 2
    /\ nodes[SlotIp].t = "Expr" \/ is_local_var(nodes[SlotIp])

\* U is the top slot itself
SetLocalOfTop == SetLocalStep /\ Len(stack) = Processed.stack_offset + 1

SetLocalPops == stack' = SubSeq(stack, 1, Len(stack) - 1)

\* slot U is a declaration (the one it was, when it was one), the top entry's
\* slot is emptied and the Assign of its expression to slot U's name is stored
SetLocalStores ==
    /\ result' = "running"
    /\ is_local_var(nodes'[SlotIp])
    /\ is_local_var(nodes[SlotIp]) => nodes'[SlotIp] = nodes[SlotIp]
    /\ nodes[SlotIp].t = "Expr" => nodes'[SlotIp].s.rhs = nodes[SlotIp].e
    /\ nodes[TopIp].t = "Expr"
    /\ nodes'[TopIp] = None
    /\ nodes'[ip] = StmtNode(Assign(nodes'[SlotIp].s.name, nodes[TopIp].e))

\* the top entry is an expression fragment of another instruction than slot U's
RhsIsExpr == nodes[TopIp].t = "Expr" /\ TopIp # SlotIp

(***************************************************************************)
(* C24 as stated: with depth at least U + 2 and slot U produced by an      *)
(* expression or a LocalVar, slot U's node is a LocalVar, the depth        *)
(* decreases by one, the popped entry's slot is emptied and nodes[ip] is   *)
(* the Assign of the popped expression to slot U's name; with U the top    *)
(* slot the parse fails with an error.                                     *)
(***************************************************************************)
C24_SetLocalAsStated ==
    [][/\ SetLocalCase => (SetLocalPops /\ SetLocalStores)
       /\ SetLocalOfTop => result' = "err"]_vars

(***************************************************************************)
(* C24 amended: the depth decreases by one in every such SetLocal; the     *)
(* Assign is stored as stated when the popped entry's slot holds an        *)
(* expression fragment of another instruction than slot U's, and otherwise *)
(* parse returns a Parser error and no node is stored at ip; with U the    *)
(* top slot the parse fails with a Parser error.                           *)
(***************************************************************************)
C24_SetLocalAmended ==
    [][/\ SetLocalCase
          => /\ SetLocalPops
             /\ RhsIsExpr => SetLocalStores
             /\ ~RhsIsExpr
                   => /\ result' = "err" /\ error'.kind = "Parser"
                      /\ nodes'[ip] = None
       /\ SetLocalOfTop => (result' = "err" /\ error'.kind = "Parser")]_vars

\* PushInt 1; PushInt 1; SetLocal 0 has been processed: `local a = 1`, then `a = 1`
C24_Witness ==
    /\ result = "running" /\ ip = 3
    /\ ops[1] = OpPushInt(1) /\ ops[2] = OpPushInt(1) /\ ops[3] = OpSetLocal(0)
    /\ stack = <<0>>
    /\ nodes[0] = StmtNode(LocalVar("a", LitInt(1)))
    /\ nodes[1] = None
    /\ nodes[2] = StmtNode(Assign("a", LitInt(1)))

\* SetLocal of the top slot has failed
C24_WitnessTop ==
    /\ result = "err" /\ ip = 2
    /\ ops[1] = OpPushInt(1) /\ ops[2] = OpSetLocal(0)
    /\ error = err_expr_expected

(***************************************************************************)
(* C25: local names are stable.  While a declared slot stays on the stack  *)
(* no step gives its declaration another name (the node stays as it is or  *)
(* is moved out of the buffer), and every successful GetLocal U or         *)
(* SetLocal U of a declared slot stores Access(n) or Assign{n, ...} with   *)
(* the declared name n and draws no name from the Namer.                   *)
(***************************************************************************)
DeclaredSlots == {k \in 1..Len(stack) : is_local_var(nodes[stack[k]])}

NamesKept ==
    \A k \in DeclaredSlots :
        (k <= Len(stack') /\ stack'[k] = stack[k])
           => nodes'[stack[k]] \in {nodes[stack[k]], None}

NameUsed ==
    (/\ HandlerStep
     /\ Processed.op \in {"GetLocal", "SetLocal"}
     /\ Processed.stack_offset + 1 \in DeclaredSlots
     /\ result' = "running")
       => LET n == nodes[stack[Processed.stack_offset + 1]].s.name
          IN /\ local_namer' = local_namer
             /\ Processed.op = "GetLocal" => nodes'[ip] = ExprNode(Access(n))
             /\ Processed.op = "SetLocal"
                   => /\ nodes'[ip].t = "Stmt" /\ nodes'[ip].s.k = "Assign"
                      /\ nodes'[ip].s.name = n

C25_LocalNamesStable == [][NamesKept /\ NameUsed]_vars

\* PushInt 1; GetLocal 0; SetLocal 0; GetLocal 0: slot 0 is declared once as a, then
\* assigned and read under that name
C25_Witness ==
    /\ result = "running" /\ ip = 4 /\ local_namer = 1
    /\ ops[1] = OpPushInt(1) /\ ops[2] = OpGetLocal(0)
    /\ ops[3] = OpSetLocal(0) /\ ops[4] = OpGetLocal(0)
    /\ nodes[0] = StmtNode(LocalVar("a", LitInt(1)))
    /\ nodes[2] = StmtNode(Assign("a", Access("a")))
    /\ nodes[3] = ExprNode(Access("a"))

(***************************************************************************)
(* C26: Pop n with n not greater than the stack depth removes exactly the  *)
(* top n stack entries and changes nothing else: the nodes buffer (the     *)
(* slots of the popped entries included), the span stack, local_end and    *)
(* the Namer are unchanged, and no node is stored at the Pop's own Ip.     *)
(***************************************************************************)
C26_PopFrame ==
    [][(HandlerStep /\ Processed.op = "Pop" /\ Processed.n <= Len(stack))
          => /\ result' = "running"
             /\ stack' = SubSeq(stack, 1, Len(stack) - Processed.n)
             /\ nodes' = nodes
             /\ nodes'[ip] = None
             /\ blocks' = blocks
             /\ local_end' = local_end
             /\ local_namer' = local_namer]_vars

\* PushInt 1; GetLocal 0; Pop 2 has been processed: both entries are gone, their
\* nodes and local_end are as they were
C26_Witness ==
    /\ result = "running" /\ ip = 3
    /\ ops[1] = OpPushInt(1) /\ ops[2] = OpGetLocal(0) /\ ops[3] = OpPop(2)
    /\ stack = <<>> /\ local_end = 1 /\ local_namer = 1
    /\ nodes[0] = StmtNode(LocalVar("a", LitInt(1)))
    /\ nodes[1] = ExprNode(Access("a"))
    /\ nodes[2] = None

(***************************************************************************)
(* C27: Return U at ip, with at least U entries on the stack, removes the  *)
(* top U entries, empties their node slots (their fragments are the        *)
(* return list) and stores a statement at nodes[ip].                       *)
(***************************************************************************)
C27_ReturnStoresStatement ==
    [][(HandlerStep /\ Processed.op = "Return" /\ Processed.results <= Len(stack))
          => /\ stack' = SubSeq(stack, 1, Len(stack) - Processed.results)
             /\ \A k \in (Len(stack) - Processed.results + 1)..Len(stack) :
                   nodes'[stack[k]] = None
             /\ nodes'[ip].t = "Stmt"]_vars

(***************************************************************************)
(* C28: no fragment is counted twice.  Every instruction that stores a     *)
(* node contributes one fragment (a declaration is the fragment of the     *)
(* instruction it was promoted from, an If that of its jump); the buffer,  *)
(* and the tree parse returns, hold as many fragments as instructions      *)
(* that produced one, so each occurs once.  The root block lists the       *)
(* nodes left in the buffer in increasing order of their instruction.      *)
(***************************************************************************)
RECURSIVE FragmentsOfExpr(_)
RECURSIVE FragmentsOfExprs(_)
RECURSIVE FragmentsOfBlock(_)

FragmentsOfExprs(es) ==
    IF es = <<>> THEN 0 ELSE FragmentsOfExpr(Head(es)) + FragmentsOfExprs(Tail(es))

FragmentsOfExpr(e) ==
    IF e.k \in {"Literal", "Access"} THEN 1
    ELSE IF e.k = "Binary" THEN 1 + FragmentsOfExpr(e.lhs) + FragmentsOfExpr(e.rhs)
    ELSE 1 + FragmentsOfExpr(e.call.name) + FragmentsOfExprs(e.call.args)

FragmentsOfStmt(s) ==
    IF s.k = "LocalVar" THEN FragmentsOfExpr(s.rhs)
    ELSE IF s.k = "Assign" THEN 1 + FragmentsOfExpr(s.rhs)
    ELSE IF s.k = "Call" THEN 1 + FragmentsOfExpr(s.call.name) + FragmentsOfExprs(s.call.args)
    ELSE 1 + FragmentsOfExpr(s.head.lhs) + FragmentsOfExpr(s.head.rhs)
           + FragmentsOfBlock(s.then)
           + (IF s.else_ = <<>> THEN 0 ELSE FragmentsOfBlock(s.else_[1]))

FragmentsOfNode(node) ==
    IF node.t = "None" THEN 0
    ELSE IF node.t = "Expr" THEN FragmentsOfExpr(node.e)
    ELSE IF node.t = "Stmt" THEN FragmentsOfStmt(node.s)
    ELSE 1 + FragmentsOfExpr(node.q.expr.lhs) + FragmentsOfExpr(node.q.expr.rhs)

FragmentsOfBlock(block) ==
    IF block = <<>> THEN 0
    ELSE FragmentsOfNode(Head(block)) + FragmentsOfBlock(Tail(block))

\* the instructions processed so far whose handler stores a node at its Ip
Producers ==
    {i \in 1..ip : ops[i].op \in {"PushInt", "GetLocal", "GetGlobal", "Add", "Call",
                                   "SetLocal", "JumpLe"}}

EachFragmentOnce ==
    /\ result = "running"
          => FragmentsOfBlock(NonEmpty(nodes, 0, code_len - 1)) = Cardinality(Producers)
    /\ result = "ok" => FragmentsOfBlock(root) = Cardinality(Producers)

\* the step that returns the Syntax lists the nodes by instruction
RootInOrder ==
    (result = "running" /\ result' = "ok")
       => LET full == {i \in DOMAIN nodes : nodes[i] # None}
          IN /\ Len(root') = Cardinality(full)
             /\ \A i \in full : root'[Cardinality({j \in full : j <= i})] = nodes[i]

C28_NoFragmentTwice == []EachFragmentOnce /\ [][RootInOrder]_vars

\* a parse has returned a tree in which a Call with two results left its Ip in two
\* stack slots
C28_Witness ==
    /\ result = "ok" /\ Len(root) >= 1 /\ Len(stack) >= 2
    /\ \E k \in 1..(Len(stack) - 1) : stack[k] = stack[k + 1]

(***************************************************************************)
(* C29: in every reachable parser state each Ip on the simulated stack     *)
(* indexes a nodes slot that is empty, an Expr or a LocalVar declaration,  *)
(* never a Partial or another statement; so neither promotion error ("a    *)
(* statement cannot be turned ..." and the partial one) is ever returned.  *)
(***************************************************************************)
Promotable(node) == node.t \in {"None", "Expr"} \/ is_local_var(node)

C29_StackSlotsPromotable ==
    /\ \A k \in 1..Len(stack) : Promotable(nodes[stack[k]])
    /\ error.msg \notin
          {"a statement cannot be turned into a local variable declaration",
           "a partially built statement cannot be turned into a local variable declaration"}

\* beside a stack entry whose node is a declaration, the buffer holds a call
\* statement or an assignment (whose Ip is not on the stack) and the parse goes on
C29_Witness ==
    /\ result = "running" /\ stack # <<>>
    /\ \E k \in 1..Len(stack) : is_local_var(nodes[stack[k]])
    /\ \E i \in DOMAIN nodes : nodes[i].t = "Stmt" /\ nodes[i].s.k \in {"Call", "Assign"}

(***************************************************************************)
(* C30: in every reachable parser state the Ips on the simulated stack are *)
(* non-decreasing from bottom to top, each is at most the index of the     *)
(* instruction processed last, and every nodes slot with a greater index   *)
(* is empty.                                                               *)
(***************************************************************************)
\* the index of the instruction processed last (-1 before the first)
LastProcessed == ip - 1

C30_StackOrdered ==
    /\ \A k \in 1..(Len(stack) - 1) : stack[k] <= stack[k + 1]
    /\ \A k \in 1..Len(stack) : stack[k] <= LastProcessed
    /\ \A i \in DOMAIN nodes : i > LastProcessed => nodes[i] = None

\* PushInt 1; PushInt 1; Call 1 2 has been processed: the call's Ip is on the stack
\* twice, above the entry of instruction 0
C30_Witness ==
    /\ result = "running" /\ ip = 3
    /\ ops[3] = OpCall(1, 2)
    /\ stack = <<0, 2, 2>>
    /\ \A i \in DOMAIN nodes : i > 2 => nodes[i] = None

(***************************************************************************)
(* C31: the names one Namer returns are pairwise distinct: the name of a   *)
(* call is none of the names of the calls before it.                       *)
(***************************************************************************)
\* the names returned by the calls before the last one
EarlierNames == {NamerNext(count) : count \in 0..(local_namer - 2)}

C31_NamesDistinct ==
    (dec.pc = "namer" /\ local_namer >= 1) => dec.name \notin EarlierNames

\* the alphabet has wrapped around twice: call 53 returns a name of three letters
C31_Witness ==
    /\ dec.pc = "namer" /\ local_namer = 53 /\ dec.name = "abc"
    /\ "a" \in EarlierNames /\ "ab" \in EarlierNames

(***************************************************************************)
(* C32: the span stack is always well formed: every open span has          *)
(* start < end, the starts strictly increase from the bottom of the span   *)
(* stack to the top, and the end of a span is not greater than the end of  *)
(* the span beneath it.                                                    *)
(***************************************************************************)
SpansForward == \A k \in 1..Len(blocks) : blocks[k].start < blocks[k].end

StartsIncrease == \A k \in 1..(Len(blocks) - 1) : blocks[k].start < blocks[k + 1].start

SpansNested == \A k \in 1..(Len(blocks) - 1) : blocks[k + 1].end <= blocks[k].end

C32_SpanStackWellFormed == SpansForward /\ StartsIncrease /\ SpansNested

(***************************************************************************)
(* C33: processing stops at the first End.                                 *)
(***************************************************************************)
\* the handler of op run on parser state p as instruction at of a code of n
\* instructions
HandlerOn(p, op, at, n) ==
    CASE op.op = "Call" -> parse_call(p, at, op.stack_offset, op.results)
      [] op.op = "Pop" -> parse_pop(p, op.n)
      [] op.op = "PushInt" -> parse_push_int(p, at, op.value)
      [] op.op = "GetLocal" -> parse_get_local(p, at, op.stack_offset)
      [] op.op = "GetGlobal" -> parse_get_global(p, at, op.string_id)
      [] op.op = "SetLocal" -> parse_set_local(p, at, op.stack_offset)
      [] op.op = "Add" -> parse_binary_op(p, at, "Add")
      [] op.op = "JumpLe" -> parse_jump_le(p, at, op.ip, n)
      [] OTHER -> Ok(p)

RECURSIVE ParsePrefix(_, _, _, _)
\* the parse loop from instruction at on, over the instructions pre (which end with
\* the first End) of a code of n instructions
ParsePrefix(p, at, pre, n) ==
    IF at >= Len(pre) THEN Ok(p)
    ELSE LET c == IF p.blocks # <<>> /\ p.blocks[Len(p.blocks)].end = at
                  THEN end_block(p) ELSE Ok(p)
             op == pre[at + 1]
         IN IF c.res # "ok" \/ op.op = "End" THEN c
            ELSE LET r == HandlerOn(c.p, op, at, n)
                 IN IF r.res # "ok" THEN r ELSE ParsePrefix(r.p, at + 1, pre, n)

\* the outcome of parse on a code of n instructions that begins with pre
OutcomeOf(pre, n) ==
    LET r == ParsePrefix([stack |-> <<>>, nodes |-> [i \in 0..(n - 1) |-> None],
                          blocks |-> <<>>, local_end |-> 0, local_namer |-> 0],
                         0, pre, n)
    IN [res |-> r.res, root |-> NonEmpty(r.p.nodes, 0, n - 1),
        stack |-> r.p.stack, blocks |-> r.p.blocks]

\* parse has returned at an End instruction
StoppedAtEnd == result = "ok" /\ ip < code_len

\* the step that processes End moves the nodes to the root block and leaves the
\* stack and the span stack, the spans that end beyond the End included
EndStops ==
    (InLoop /\ ~MustClose /\ ops'[ip + 1].op = "End")
       => /\ result' = "ok" /\ ip' = ip
          /\ stack' = stack /\ blocks' = blocks
          /\ root' = NonEmpty(nodes, 0, code_len - 1)

\* once parse has returned, nothing of the parser changes and no further
\* instruction is read
NothingAfterEnd ==
    (result = "ok")
       => UNCHANGED <<ops, ip, stack, nodes, blocks, local_end, local_namer, root, result>>

\* the returned tree is that of the instructions up to the End, whatever the
\* number of instructions after it
OnlyPrefixMatters ==
    StoppedAtEnd
       => LET pre == SubSeq(ops, 1, ip + 1)
          IN /\ OutcomeOf(pre, code_len) =
                   [res |-> "ok", root |-> root, stack |-> stack, blocks |-> blocks]
             /\ \A n \in (ip + 1)..(code_len + 2) :
                   OutcomeOf(pre, n).res = "ok" => OutcomeOf(pre, n).root = root

C33_StopsAtFirstEnd == []OnlyPrefixMatters /\ [][EndStops /\ NothingAfterEnd]_vars

\* parse has returned at an End that is followed by instructions, with a span open
\* whose end lies beyond the End
C33_Witness ==
    /\ StoppedAtEnd /\ ip + 1 < code_len
    /\ blocks # <<>> /\ blocks[Len(blocks)].end > ip

(***************************************************************************)
(* The Scribe on its own (scribe.rs 10-31): one Scribe formats one Syntax  *)
(* after the other, each into a new writer that is a String or fails once  *)
(* it holds `room` pieces.  dec counts the calls of fmt_syntax.            *)
(***************************************************************************)
MaxRuns == 2
MaxRoom == 8

\* the Syntax trees formatted: empty, a declaration, an If with an else arm, a
\* do-block (Stmt::Block) and an If inside an If
ScribeRoots ==
    {<<>>,
     <<StmtNode(LocalVar("a", LitInt(1)))>>,
     <<StmtNode(IfBlock(CondBinary("Le", LitInt(1), LitInt(2)),
                        <<StmtNode(Assign("a", LitInt(1)))>>,
                        <<<<StmtNode(Assign("a", LitInt(2)))>>>>))>>,
     <<StmtNode([k |-> "Block", block |-> <<StmtNode(Assign("a", LitInt(1)))>>])>>,
     <<StmtNode(IfBlock(CondBinary("Le", LitInt(1), LitInt(2)),
                        <<StmtNode(IfBlock(CondBinary("Le", LitInt(1), LitInt(2)),
                                           <<StmtNode(Assign("a", LitInt(1)))>>, <<>>))>>,
                        <<>>))>>}

ScribeInit ==
    /\ ParserNew(<<>>)
    /\ dec = [pc |-> "scribe", runs |-> 0]

\* scribe.fmt_syntax(&mut f, &syntax) on the Scribe as the last call left it; the
\* writer f is a String or a writer with room for 0..MaxRoom pieces
ScribeRun ==
    /\ dec.pc = "scribe" /\ dec.runs < MaxRuns
    /\ scribe.res # "panic"
    /\ \E syntax_root \in ScribeRoots,
          f \in {[limited |-> FALSE, room |-> 0]}
                   \cup {[limited |-> TRUE, room |-> n] : n \in 0..MaxRoom} :
          /\ root' = syntax_root
          /\ scribe' = fmt_syntax([res |-> "ok", out |-> <<>>, level |-> scribe.level,
                                   limited |-> f.limited, room |-> f.room], syntax_root)
    /\ dec' = [dec EXCEPT !.runs = @ + 1]
    /\ UNCHANGED <<ops, ip, closed, stack, nodes, blocks, local_end, local_namer,
                   result, error>>

SpecScribe == ScribeInit /\ [][ScribeRun]_vars

(***************************************************************************)
(* C34: fmt_syntax leaves the indentation level as it was on entry on      *)
(* every return, whether it succeeds or the writer fails inside a nested   *)
(* body: a Scribe made by Scribe::new is at depth 0 after every call.      *)
(***************************************************************************)
C34_LevelRestored ==
    (dec.pc = "scribe" /\ scribe.res \in {"idle", "ok", "err"}) => scribe.level = 0

====
